---- MODULE Spec2Model ----
(***************************************************************************)
(* Model of the proximal Bentley-Ottmann sweep: the AVL ordered map        *)
(* (event_tree.py), the status tree and segment comparator                 *)
(* (status_tree.py) and the event store and sweep driver (sweep_line.py).  *)
(*                                                                         *)
(* Trees are modelled as the code builds them: a heap of node objects      *)
(* with parent / left_child / right_child references and a stored height.  *)
(* A tree is a record [root, nodes, nodes_count]; nodes maps a node id to  *)
(* the node's fields and Nil stands for Python's None.                     *)
(*                                                                         *)
(* Numbers: coordinates are fixed-point values counted in units of         *)
(* TOL_ACC / 3, so that points closer than the tolerance but not equal     *)
(* exist.  Tests against a norm (a square root in the code) are made on    *)
(* the squares, which is exact.                                            *)
(***************************************************************************)
EXTENDS Integers, Sequences, FiniteSets, TLC

\* ------------------------------------------------------------------------
\* Bounds of the model
\* ------------------------------------------------------------------------
MaxKey == 5      \* SpecTree: keys are 1..MaxKey
MaxData == 1     \* SpecTree: payloads are 0..MaxData
MaxDrift == 1    \* SpecTree: cap on (nodes in the tree) - nodes_count
MaxX == 2        \* SpecSweep: grid columns are 0..MaxX
MaxY == 1        \* SpecSweep: grid rows are 0..MaxY
MaxSegs == 2     \* SpecSweep: the input list has 1..MaxSegs segments
MaxFineY == 9    \* SpecFine: fine rows are 0..MaxFineY
MaxSnapY == 12   \* SpecSnap: the near-vertical segment ends on row MaxSnapY
MaxPx == 2       \* SpecRange: stored points have x in 0..MaxPx
MaxPy == 1       \* SpecRange: stored points have y in 0..MaxPy
MaxStored == 3   \* SpecRange: the event tree holds at most MaxStored nodes
MaxNest == 10    \* SpecStatus: the first gap is halved MaxNest times

\* ------------------------------------------------------------------------
\* Program constants
\* ------------------------------------------------------------------------
TOL_ACC == 3     \* event_tree.py:32 (1e-9), in model units of TOL_ACC/3

\* spacing of the grids of SpecSweep and SpecThree: far above the tolerance,
\* and a multiple of 2, 3, 4 and 5 so that the crossing points of the grid
\* segments are exact
Step == 20 * TOL_ACC

Nil == 0         \* None, where a node reference is expected
NoneVal == <<>>  \* None, where a value or a point is expected

\* A key ("value" of a node) is a list of numbers, compared as Python
\* compares lists: an event point is <<x, y>>, a number key v is <<v>>.
Less(a, b) ==
    \/ \E i \in 1..(IF Len(a) < Len(b) THEN Len(a) ELSE Len(b)) :
          /\ a[i] < b[i]
          /\ \A j \in 1..(i - 1) : a[j] = b[j]
    \/ /\ Len(a) < Len(b)
       /\ \A j \in 1..Len(a) : a[j] = b[j]

Max(a, b) == IF a > b THEN a ELSE b
Abs(a) == IF a < 0 THEN -a ELSE a

\* ------------------------------------------------------------------------
\* event_tree.py : AVLNode
\* ------------------------------------------------------------------------
AVLNode(value, data) ==
    [value |-> value, data |-> data, parent |-> Nil,
     left_child |-> Nil, right_child |-> Nil, height |-> 0]

isLeaf(T, n) == T.nodes[n].height = 0

maxChildrenHeight(T, n) ==
    LET l == T.nodes[n].left_child
        r == T.nodes[n].right_child
    IN  IF l # Nil /\ r # Nil THEN Max(T.nodes[l].height, T.nodes[r].height)
        ELSE IF l # Nil /\ r = Nil THEN T.nodes[l].height
        ELSE IF l = Nil /\ r # Nil THEN T.nodes[r].height
        ELSE -1

balanceFactor(T, n) ==
    LET l == T.nodes[n].left_child
        r == T.nodes[n].right_child
    IN  (IF l # Nil THEN T.nodes[l].height ELSE -1)
        - (IF r # Nil THEN T.nodes[r].height ELSE -1)

\* ------------------------------------------------------------------------
\* heap helpers: one field assignment each
\* ------------------------------------------------------------------------
SetLeft(T, n, c) == [T EXCEPT !.nodes[n].left_child = c]
SetRight(T, n, c) == [T EXCEPT !.nodes[n].right_child = c]
SetParent(T, n, p) == [T EXCEPT !.nodes[n].parent = p]
SetHeight(T, n, h) == [T EXCEPT !.nodes[n].height = h]
\* "if c: c.parent = p"
SetParentIf(T, c, p) == IF c = Nil THEN T ELSE SetParent(T, c, p)

\* a node object is created: it gets the smallest unused id
NewId(T) ==
    CHOOSE i \in 1..(Cardinality(DOMAIN T.nodes) + 1) :
        /\ i \notin DOMAIN T.nodes
        /\ \A j \in 1..(i - 1) : j \in DOMAIN T.nodes

AddNode(T, id, nd) ==
    [T EXCEPT !.nodes = [i \in (DOMAIN T.nodes) \cup {id} |->
                            IF i = id THEN nd ELSE T.nodes[i]]]

\* a node object no longer referenced from the tree is reclaimed
DropNode(T, id) ==
    [T EXCEPT !.nodes = [i \in (DOMAIN T.nodes) \ {id} |-> T.nodes[i]]]

\* ------------------------------------------------------------------------
\* event_tree.py : AVLTree
\* ------------------------------------------------------------------------
AVLTree == [root |-> Nil, nodes |-> [i \in {} |-> 0], nodes_count |-> 0]

setRoot(T, value, data) ==
    LET id == NewId(T)
    IN  [AddNode(T, id, AVLNode(value, data)) EXCEPT !.root = id]

RECURSIVE _findSmallest(_, _)
_findSmallest(T, node) ==
    IF T.nodes[node].left_child # Nil
    THEN _findSmallest(T, T.nodes[node].left_child)
    ELSE node

RECURSIVE _findBiggest(_, _)
_findBiggest(T, node) ==
    IF T.nodes[node].right_child # Nil
    THEN _findBiggest(T, T.nodes[node].right_child)
    ELSE node

\* get_min(val_dat=False): the node itself, Nil on an empty tree
get_min_node(T) == IF T.root = Nil THEN Nil ELSE _findSmallest(T, T.root)

\* get_min(): the [value, data] pair, [None, None] on an empty tree
get_min(T) ==
    IF T.root = Nil THEN <<NoneVal, NoneVal>>
    ELSE LET n == get_min_node(T) IN <<T.nodes[n].value, T.nodes[n].data>>

RECURSIVE _recomputeHeights(_, _)
_recomputeHeights(T, node) ==
    IF node = Nil THEN T
    ELSE LET old_height == T.nodes[node].height
             new_height ==
                 IF T.nodes[node].right_child # Nil
                    \/ T.nodes[node].left_child # Nil
                 THEN maxChildrenHeight(T, node) + 1
                 ELSE 0
             T1 == SetHeight(T, node, new_height)
         IN  IF new_height # old_height
             THEN _recomputeHeights(T1, T1.nodes[node].parent)
             ELSE T1

\* "if F is None: root = X; root.parent = None / else: hang X under F"
Reattach(T, F, A, X) ==
    IF F = Nil
    THEN SetParent([T EXCEPT !.root = X], X, Nil)
    ELSE LET T1 == IF T.nodes[F].right_child = A
                   THEN SetRight(T, F, X)
                   ELSE SetLeft(T, F, X)
         IN  SetParent(T1, X, F)

\* "if A.right_child: A.right_child.parent = A" and its mirror image
AdoptRight(T, A) == SetParentIf(T, T.nodes[A].right_child, A)
AdoptLeft(T, A) == SetParentIf(T, T.nodes[A].left_child, A)

\* "A.right_child = C.left_child"
RightFromLeft(T, A, C) == SetRight(T, A, T.nodes[C].left_child)

\* "self._recomputeHeights(B.parent)"
RecomputeAtParent(T, B) == _recomputeHeights(T, T.nodes[B].parent)

_rebalance(T, A) ==
    LET F == T.nodes[A].parent
    IN  IF balanceFactor(T, A) = -2
        THEN IF balanceFactor(T, T.nodes[A].right_child) <= 0
             THEN \* case RRC
                  LET B == T.nodes[A].right_child
                      T1 == SetRight(T, A, T.nodes[B].left_child)
                      T2 == AdoptRight(T1, A)
                      T3 == SetLeft(T2, B, A)
                      T4 == SetParent(T3, A, B)
                      T5 == Reattach(T4, F, A, B)
                      T6 == _recomputeHeights(T5, A)
                  IN  RecomputeAtParent(T6, B)
             ELSE \* case RLC
                  LET B == T.nodes[A].right_child
                      C == T.nodes[B].left_child
                      T1 == SetLeft(T, B, T.nodes[C].right_child)
                      T2 == AdoptLeft(T1, B)
                      T3 == RightFromLeft(T2, A, C)
                      T4 == AdoptRight(T3, A)
                      T5 == SetRight(T4, C, B)
                      T6 == SetParent(T5, B, C)
                      T7 == SetLeft(T6, C, A)
                      T8 == SetParent(T7, A, C)
                      T9 == Reattach(T8, F, A, C)
                      T10 == _recomputeHeights(T9, A)
                  IN  _recomputeHeights(T10, B)
        ELSE IF balanceFactor(T, T.nodes[A].left_child) >= 0
             THEN \* case LLC
                  LET B == T.nodes[A].left_child
                      T1 == SetLeft(T, A, T.nodes[B].right_child)
                      T2 == AdoptLeft(T1, A)
                      T3 == SetRight(T2, B, A)
                      T4 == SetParent(T3, A, B)
                      T5 == Reattach(T4, F, A, B)
                      T6 == _recomputeHeights(T5, A)
                  IN  RecomputeAtParent(T6, B)
             ELSE \* case LRC
                  LET B == T.nodes[A].left_child
                      C == T.nodes[B].right_child
                      T1 == SetLeft(T, A, T.nodes[C].right_child)
                      T2 == AdoptLeft(T1, A)
                      T3 == RightFromLeft(T2, B, C)
                      T4 == AdoptRight(T3, B)
                      T5 == SetLeft(T4, C, B)
                      T6 == SetParent(T5, B, C)
                      T7 == SetRight(T6, C, A)
                      T8 == SetParent(T7, A, C)
                      T9 == Reattach(T8, F, A, C)
                      T10 == _recomputeHeights(T9, A)
                  IN  _recomputeHeights(T10, B)

\* the loop "while node: if balanceFactor in [-2,2]: found; node = parent"
RECURSIVE FirstUnbalanced(_, _)
FirstUnbalanced(T, node) ==
    IF node = Nil THEN Nil
    ELSE IF balanceFactor(T, node) \in {-2, 2} THEN node
    ELSE FirstUnbalanced(T, T.nodes[node].parent)

\* "if node_to_rebalance: self._rebalance(node_to_rebalance)"
RebalanceIf(T, node_to_rebalance) ==
    IF node_to_rebalance # Nil THEN _rebalance(T, node_to_rebalance) ELSE T

\* the search for node_to_rebalance from currentNode, and the rebalance
RebalanceFrom(T, currentNode) ==
    RebalanceIf(T, FirstUnbalanced(T, currentNode))

\* variant of InsertFixup that recomputes the heights and never rotates
InsertFixup_NoRotation(T, currentNode, old_height) ==
    IF old_height = 0 THEN _recomputeHeights(T, currentNode) ELSE T

\* after a child was hung under currentNode (both branches of _insertNode)
InsertFixup(T, currentNode, old_height) ==
    IF old_height = 0
    THEN RebalanceFrom(_recomputeHeights(T, currentNode), currentNode)
    ELSE T

\* "child_node = AVLNode(...); currentNode.<side>_child = child_node;
\* child_node.parent = currentNode", on the left when to_left
NewChild(T, currentNode, to_left, nd) ==
    SetParent(IF to_left
              THEN SetLeft(AddNode(T, NewId(T), nd), currentNode, NewId(T))
              ELSE SetRight(AddNode(T, NewId(T), nd), currentNode, NewId(T)),
              NewId(T), currentNode)

\* _insertNode returns the pair <<tree, in_ok>>
RECURSIVE _insertNode(_, _, _, _)
_insertNode(T, currentNode, value, data) ==
    LET cur == T.nodes[currentNode]
    IN  IF Less(value, cur.value) /\ cur.left_child # Nil
        THEN _insertNode(T, cur.left_child, value, data)
        ELSE IF ~Less(value, cur.value) /\ Less(cur.value, value)
                /\ cur.right_child # Nil
        THEN _insertNode(T, cur.right_child, value, data)
        ELSE IF Less(value, cur.value) \/ Less(cur.value, value)
        THEN <<InsertFixup(NewChild(T, currentNode, Less(value, cur.value),
                                    AVLNode(value, data)),
                           currentNode, cur.height), TRUE>>
        ELSE <<T, FALSE>>

\* variant of CountNode that counts a node for every call
CountNode_EveryCall(res) == <<[res[1] EXCEPT !.nodes_count = @ + 1], res[2]>>

\* "if in_ok: self.nodes_count += 1; return in_ok"
CountNode(res) ==
    IF res[2] THEN <<[res[1] EXCEPT !.nodes_count = @ + 1], TRUE>> ELSE res

insert(T, value, data) ==
    CountNode(IF T.root = Nil
              THEN <<setRoot(T, value, data), TRUE>>
              ELSE _insertNode(T, T.root, value, data))

RECURSIVE _dfsSearch(_, _, _)
_dfsSearch(T, currentNode, key) ==
    IF currentNode = Nil THEN Nil
    ELSE IF T.nodes[currentNode].value = key THEN currentNode
    ELSE IF Less(key, T.nodes[currentNode].value)
    THEN _dfsSearch(T, T.nodes[currentNode].left_child, key)
    ELSE _dfsSearch(T, T.nodes[currentNode].right_child, key)

search(T, key) == _dfsSearch(T, T.root, key)

\* the loop "while node is not None: rebalance if needed; node = node.parent"
RECURSIVE RebalanceUp(_, _)
\* "node = node.parent" and the next pass of the loop
RebalanceNext(T, node) == RebalanceUp(T, T.nodes[node].parent)

RebalanceUp(T, node) ==
    IF node = Nil THEN T
    ELSE RebalanceNext(IF balanceFactor(T, node) \notin {-1, 0, 1}
                       THEN _rebalance(T, node)
                       ELSE T,
                       node)

_removeLeaf(T, node) ==
    LET parent == T.nodes[node].parent
        T1 == IF parent # Nil
              THEN LET U == IF T.nodes[parent].left_child = node
                            THEN SetLeft(T, parent, Nil)
                            ELSE SetRight(T, parent, Nil)
                   IN  _recomputeHeights(U, parent)
              ELSE [T EXCEPT !.root = Nil]
    IN  RebalanceUp(DropNode(T1, node), parent)

_removeBranch(T, node) ==
    LET parent == T.nodes[node].parent
        nd == T.nodes[node]
        child == IF nd.right_child # Nil THEN nd.right_child
                 ELSE nd.left_child
        T1 == IF parent # Nil
              THEN LET U1 == IF T.nodes[parent].left_child = node
                             THEN SetLeft(T, parent, child)
                             ELSE SetRight(T, parent, child)
                       U2 == IF nd.left_child # Nil
                             THEN SetParent(U1, nd.left_child, parent)
                             ELSE SetParent(U1, nd.right_child, parent)
                       U3 == _recomputeHeights(U2, parent)
                   IN  DropNode(U3, node)
              ELSE T      \* no parent: nothing is unlinked
    IN  RebalanceUp(T1, parent)

_swapNodes(T, node1, node2) ==
    LET parent1 == T.nodes[node1].parent
        leftChild1 == T.nodes[node1].left_child
        rightChild1 == T.nodes[node1].right_child
        parent2 == T.nodes[node2].parent
        leftChild2 == T.nodes[node2].left_child
        rightChild2 == T.nodes[node2].right_child
        \* swap heights
        T1 == SetHeight(SetHeight(T, node1, T.nodes[node2].height),
                        node2, T.nodes[node1].height)
        T2 == IF parent1 # Nil
              THEN LET U == IF T1.nodes[parent1].left_child = node1
                            THEN SetLeft(T1, parent1, node2)
                            ELSE SetRight(T1, parent1, node2)
                   IN  SetParent(U, node2, parent1)
              ELSE SetParent([T1 EXCEPT !.root = node2], node2, Nil)
        T3 == SetLeft(T2, node2, leftChild1)
        T4 == SetParent(T3, leftChild1, node2)
        T5 == SetLeft(T4, node1, leftChild2)
        T6 == SetRight(T5, node1, rightChild2)
        T7 == SetParentIf(T6, rightChild2, node1)
    IN  IF parent2 # node1
        THEN LET U1 == SetRight(T7, node2, rightChild1)
                 U2 == SetParent(U1, rightChild1, node2)
                 U3 == SetLeft(U2, parent2, node1)
             IN  SetParent(U3, node1, parent2)
        ELSE SetParent(SetRight(T7, node2, node1), node1, node2)

\* "if node.height == 0: self._removeLeaf(node) / else:
\* self._removeBranch(node)"
RemoveSwapped(T, node) ==
    IF T.nodes[node].height = 0
    THEN _removeLeaf(T, node)
    ELSE _removeBranch(T, node)

_swapWithSuccessorAndRemove(T, node) ==
    RemoveSwapped(
        _swapNodes(T, node, _findSmallest(T, T.nodes[node].right_child)),
        node)

\* delete_value returns the pair <<tree, found>>
delete_value(T, key) ==
    LET node == search(T, key)
    IN  IF node # Nil
        THEN LET T1 == [T EXCEPT !.nodes_count = @ - 1]
                 nd == T.nodes[node]
             IN  IF isLeaf(T, node)
                 THEN <<_removeLeaf(T1, node), TRUE>>
                 ELSE IF (nd.left_child # Nil) # (nd.right_child # Nil)
                 THEN <<_removeBranch(T1, node), TRUE>>
                 ELSE <<_swapWithSuccessorAndRemove(T1, node), TRUE>>
        ELSE <<T, FALSE>>

\* traverse(): the in-order sequence of [value, data] pairs
RECURSIVE _traverse(_, _)
_traverse(T, on_node) ==
    IF on_node = Nil THEN <<>>
    ELSE _traverse(T, T.nodes[on_node].left_child)
         \o << <<T.nodes[on_node].value, T.nodes[on_node].data>> >>
         \o _traverse(T, T.nodes[on_node].right_child)

traverse(T) == _traverse(T, T.root)

\* value-based search for the next-lowest / next-highest stored value
RECURSIVE LoWalk(_, _, _, _)
LoWalk(T, node, value, best_node) ==
    IF Less(T.nodes[node].value, value)
    THEN LET best == IF best_node = Nil THEN node
                     ELSE IF Less(T.nodes[best_node].value,
                                  T.nodes[node].value) THEN node
                     ELSE best_node
         IN  IF T.nodes[node].right_child # Nil
             THEN LoWalk(T, T.nodes[node].right_child, value, best)
             ELSE best
    ELSE IF T.nodes[node].left_child # Nil
         THEN LoWalk(T, T.nodes[node].left_child, value, best_node)
         ELSE best_node

_lo_neighbor(T, value) == LoWalk(T, T.root, value, Nil)

\* variant of lo_neighbor that returns the entry of value itself when it
\* is stored
lo_neighbor_OrEqual(T, value) ==
    IF T.root # Nil
    THEN LET nod_fnd == IF search(T, value) # Nil THEN search(T, value)
                        ELSE _lo_neighbor(T, value)
         IN  IF nod_fnd = Nil THEN <<NoneVal, NoneVal>>
             ELSE <<T.nodes[nod_fnd].value, T.nodes[nod_fnd].data>>
    ELSE <<NoneVal, NoneVal>>

lo_neighbor(T, value) ==
    IF T.root # Nil
    THEN LET nod_fnd == _lo_neighbor(T, value)
         IN  IF nod_fnd = Nil THEN <<NoneVal, NoneVal>>
             ELSE <<T.nodes[nod_fnd].value, T.nodes[nod_fnd].data>>
    ELSE <<NoneVal, NoneVal>>

RECURSIVE HiWalk(_, _, _, _)
HiWalk(T, node, value, best_node) ==
    IF Less(value, T.nodes[node].value)
    THEN LET best == IF best_node = Nil THEN node
                     ELSE IF Less(T.nodes[node].value,
                                  T.nodes[best_node].value) THEN node
                     ELSE best_node
         IN  IF T.nodes[node].left_child # Nil
             THEN HiWalk(T, T.nodes[node].left_child, value, best)
             ELSE best
    ELSE IF T.nodes[node].right_child # Nil
         THEN HiWalk(T, T.nodes[node].right_child, value, best_node)
         ELSE best_node

_hi_neighbor(T, value) == HiWalk(T, T.root, value, Nil)

hi_neighbor(T, value) ==
    IF T.root # Nil
    THEN LET nod_fnd == _hi_neighbor(T, value)
         IN  IF nod_fnd = Nil THEN <<NoneVal, NoneVal>>
             ELSE <<T.nodes[nod_fnd].value, T.nodes[nod_fnd].data>>
    ELSE <<NoneVal, NoneVal>>

\* ------------------------------------------------------------------------
\* sweep_line.py : EventTree (AVLTree keyed by [x,y], data = set of
\* (segment index, 'left' / 'right' / 'internal') tuples)
\* ------------------------------------------------------------------------
RECURSIVE _get_nearby_range(_, _, _, _)
_get_nearby_range(T, lo, hi, node) ==
    LET nd == T.nodes[node]
    IN  (IF Less(lo, nd.value) /\ nd.left_child # Nil
         THEN _get_nearby_range(T, lo, hi, nd.left_child) ELSE <<>>)
        \o (IF \A ii \in 1..2 : lo[ii] <= nd.value[ii]
                                /\ nd.value[ii] <= hi[ii]
            THEN << <<nd.value, nd.data>> >> ELSE <<>>)
        \o (IF Less(nd.value, hi) /\ nd.right_child # Nil
            THEN _get_nearby_range(T, lo, hi, nd.right_child) ELSE <<>>)

\* variant of get_nearby_range without the filter on the coordinates: the
\* events whose keys lie between lo and hi in the order of the keys
get_nearby_range_KeyRange(T, lo, hi) ==
    SelectSeq(traverse(T),
              LAMBDA ev : ~Less(ev[1], lo) /\ ~Less(hi, ev[1]))

get_nearby_range(T, lo, hi) ==
    IF T.root # Nil THEN _get_nearby_range(T, lo, hi, T.root) ELSE <<>>

\* proc_segs: the dictionary index -> [left point, right point], built from
\* the 'left' and 'right' tuples of every node; <<>> is an endpoint not
\* found.  err is "ValueError" when an index has the same endpoint role at
\* two nodes.
EndpointNodes(T, ix, role) ==
    {n \in DOMAIN T.nodes : <<ix, role>> \in T.nodes[n].data}

\* variant of proc_segs that files every endpoint under the other role
proc_segs_SwappedRoles(T) ==
    LET ixs == {tup[1] : tup \in
                  {t \in UNION {T.nodes[n].data : n \in DOMAIN T.nodes} :
                       t[2] # "internal"}}
        pt(ix, role) ==
            IF EndpointNodes(T, ix, role) = {} THEN <<>>
            ELSE T.nodes[CHOOSE n \in EndpointNodes(T, ix, role) : TRUE].value
    IN  IF \E ix \in ixs, role \in {"left", "right"} :
               Cardinality(EndpointNodes(T, ix, role)) > 1
        THEN [err |-> "ValueError", dct |-> <<>>]
        ELSE [err |-> "",
              dct |-> [ix \in ixs |-> <<pt(ix, "right"), pt(ix, "left")>>]]

\* variant of proc_segs without the test of lines 66-69
proc_segs_Unchecked(T) ==
    LET ixs == {tup[1] : tup \in
                  {t \in UNION {T.nodes[n].data : n \in DOMAIN T.nodes} :
                       t[2] # "internal"}}
        pt(ix, role) ==
            IF EndpointNodes(T, ix, role) = {} THEN <<>>
            ELSE T.nodes[CHOOSE n \in EndpointNodes(T, ix, role) : TRUE].value
    IN  [err |-> "",
         dct |-> [ix \in ixs |-> <<pt(ix, "left"), pt(ix, "right")>>]]

\* proc_segs returns [err, dct]
proc_segs(T) ==
    LET reach == DOMAIN T.nodes
        ixs == {tup[1] : tup \in
                  {t \in UNION {T.nodes[n].data : n \in reach} :
                       t[2] # "internal"}}
        pt(ix, role) ==
            IF EndpointNodes(T, ix, role) = {} THEN <<>>
            ELSE T.nodes[CHOOSE n \in EndpointNodes(T, ix, role) : TRUE].value
    IN  IF \E ix \in ixs, role \in {"left", "right"} :
               Cardinality(EndpointNodes(T, ix, role)) > 1
        THEN [err |-> "ValueError", dct |-> <<>>]
        ELSE [err |-> "",
              dct |-> [ix \in ixs |-> <<pt(ix, "left"), pt(ix, "right")>>]]

\* ------------------------------------------------------------------------
\* sweep_line.py : EventStorage
\* ------------------------------------------------------------------------
\* "for nd in nvl_lst: self.Q_tree.delete_value(nd[0])"
RECURSIVE DeleteAll(_, _, _)
DeleteAll(T, nvl_lst, i) ==
    IF i > Len(nvl_lst) THEN T
    ELSE DeleteAll(delete_value(T, nvl_lst[i][1])[1], nvl_lst, i + 1)

\* variant of GlomInsert that forgets the sets of the matched events
GlomInsert_NoUnion(T, x, y, seg_dat, nvl_lst) ==
    insert(IF Len(nvl_lst) = 0 THEN T ELSE DeleteAll(T, nvl_lst, 1),
           IF Len(nvl_lst) = 0 THEN <<x, y>> ELSE nvl_lst[1][1],
           seg_dat)[1]

\* add_point after the box query returned nvl_lst: the point itself is
\* inserted when nothing is near, else the matches are deleted and their
\* union with seg_dat (glm_set) is inserted at the first match
GlomInsert(T, x, y, seg_dat, nvl_lst) ==
    insert(IF Len(nvl_lst) = 0 THEN T ELSE DeleteAll(T, nvl_lst, 1),
           IF Len(nvl_lst) = 0 THEN <<x, y>> ELSE nvl_lst[1][1],
           IF Len(nvl_lst) = 0 THEN seg_dat
           ELSE seg_dat \cup UNION {nvl_lst[i][2] : i \in 1..Len(nvl_lst)})[1]

add_point(T, x, y, seg_dat) ==
    GlomInsert(T, x, y, seg_dat,
               get_nearby_range(T, <<x - TOL_ACC, y - TOL_ACC>>,
                                   <<x + TOL_ACC, y + TOL_ACC>>))

\* "for nd_fo in nvl_lst: ..." of glom_to_seg
RECURSIVE GlomLoop(_, _, _, _, _, _)
GlomLoop(T, nvl_lst, i, x, ymn, ymx) ==
    IF i > Len(nvl_lst) THEN T
    ELSE LET ptx == nvl_lst[i][1][1]
             pty == nvl_lst[i][1][2]
         IN  GlomLoop(IF ymn + TOL_ACC <= pty /\ pty <= ymx - TOL_ACC
                         /\ Abs(ptx - x) < TOL_ACC
                      THEN insert(delete_value(T, nvl_lst[i][1])[1],
                                  <<x, pty>>, nvl_lst[i][2])[1]
                      ELSE T,
                      nvl_lst, i + 1, x, ymn, ymx)

glom_to_seg(T, seg) ==
    LET lo_pt == IF seg[1][2] > seg[2][2] THEN seg[2] ELSE seg[1]
        hi_pt == IF seg[1][2] > seg[2][2] THEN seg[1] ELSE seg[2]
        x == seg[1][1]
        ymn == lo_pt[2]
        ymx == hi_pt[2]
        nvl_lst == get_nearby_range(T, <<x - TOL_ACC, ymn>>,
                                       <<x + TOL_ACC, ymx>>)
    IN  GlomLoop(T, nvl_lst, 1, x, ymn, ymx)

\* ------------------------------------------------------------------------
\* status_tree.py : Segment
\* ------------------------------------------------------------------------
Cross(a, b) == a[1] * b[2] - a[2] * b[1]
Dot(a, b) == a[1] * b[1] + a[2] * b[2]
Sub(a, b) == <<a[1] - b[1], a[2] - b[2]>>
NormSq(v) == v[1] * v[1] + v[2] * v[2]

\* q / nrm > TOL_ACC, q / nrm < -TOL_ACC and |q / nrm| < TOL_ACC for a
\* number q and a vector of squared length nrm2 > 0, without the root
OverTol(q, nrm2) == q > 0 /\ q * q > TOL_ACC * TOL_ACC * nrm2
UnderTol(q, nrm2) == q < 0 /\ q * q > TOL_ACC * TOL_ACC * nrm2
WithinTol(q, nrm2) == q * q < TOL_ACC * TOL_ACC * nrm2

\* Segment(seg_vls); the constructor raises ZeroDivisionError when vec has
\* length zero (ZeroLength), which the caller tests first
ZeroLength(seg_vls) == seg_vls[1] = seg_vls[2]

Segment(seg_vls) ==
    LET p1 == IF seg_vls[1][1] > seg_vls[2][1] THEN seg_vls[2]
              ELSE seg_vls[1]
        p2 == IF seg_vls[1][1] > seg_vls[2][1] THEN seg_vls[1]
              ELSE seg_vls[2]
        vec == Sub(p2, p1)
    IN  [p1 |-> p1, p2 |-> p2, vec |-> vec]

\* variant of Segment__gt__ whose tie rule has the opposite sign
Segment__gt__FlippedTie(self, other) ==
    LET low == self.p1[1] > other.p1[1]
        sn == IF low THEN -1 ELSE 1
        v0 == IF low THEN other.vec ELSE self.vec
        v1 == IF low THEN Sub(self.p1, other.p2) ELSE Sub(other.p1, self.p2)
        tmp == Cross(v0, v1)
    IN  IF OverTol(sn * tmp, NormSq(v0)) THEN FALSE
        ELSE IF WithinTol(tmp, NormSq(v0))
        THEN Cross(self.vec, other.vec) > 0
        ELSE TRUE

\* Segment.__gt__: self lies above other
Segment__gt__(self, other) ==
    LET low == self.p1[1] > other.p1[1]
        sn == IF low THEN -1 ELSE 1
        v0 == IF low THEN other.vec ELSE self.vec
        v1 == IF low THEN Sub(self.p1, other.p2) ELSE Sub(other.p1, self.p2)
        tmp == Cross(v0, v1)     \* times |v0|: v0 is not normalized here
    IN  IF OverTol(sn * tmp, NormSq(v0)) THEN FALSE
        ELSE IF WithinTol(tmp, NormSq(v0))
        THEN Cross(self.vec, other.vec) < 0
        ELSE TRUE

NodeData(seg_idx, seg_obj) == [sg_ix |-> seg_idx, seg |-> seg_obj]

\* ------------------------------------------------------------------------
\* status_tree.py : AVLStatusTree (AVLTree plus node_index)
\* Node values are numbers v, held as the one-element list <<v>>.
\* ------------------------------------------------------------------------
VALUE_SPREAD == 512
\* node values are integers here and their unit is half of VALUE_MIN (1e-8):
\* a gap of VALUE_MIN between two node values can be halved once more, as a
\* gap of 1.49e-8 (512 / 2^35) can in the source, and the midpoint of two
\* node values that are VALUE_MIN or a higher power of two apart is exact
VALUE_MIN == 2

AVLStatusTree ==
    [root |-> Nil, nodes |-> [i \in {} |-> 0], nodes_count |-> 0,
     node_index |-> [i \in {} |-> 0]]

SetIndex(T, sg_ix, nod_val) ==
    [T EXCEPT !.node_index =
        [i \in (DOMAIN T.node_index) \cup {sg_ix} |->
            IF i = sg_ix THEN nod_val ELSE T.node_index[i]]]

DelIndex(T, sg_ix) ==
    [T EXCEPT !.node_index =
        [i \in (DOMAIN T.node_index) \ {sg_ix} |-> T.node_index[i]]]

RECURSIVE ClimbUp(_, _)
ClimbUp(T, node) ==
    LET p == T.nodes[node].parent
    IN  IF p = Nil THEN Nil
        ELSE IF T.nodes[p].left_child = node THEN p
        ELSE ClimbUp(T, p)

next_up(T, node) ==
    IF T.root = Nil THEN Nil
    ELSE IF T.nodes[node].right_child # Nil
    THEN _findSmallest(T, T.nodes[node].right_child)
    ELSE ClimbUp(T, node)

RECURSIVE ClimbDn(_, _)
ClimbDn(T, node) ==
    LET p == T.nodes[node].parent
    IN  IF p = Nil THEN Nil
        ELSE IF T.nodes[p].right_child = node THEN p
        ELSE ClimbDn(T, p)

next_dn(T, node) ==
    IF T.root = Nil THEN Nil
    ELSE IF T.nodes[node].left_child # Nil
    THEN _findBiggest(T, T.nodes[node].left_child)
    ELSE ClimbDn(T, node)

node_count(T) == T.nodes_count

\* the loop of rebalance_values: returns <<tree, tmp_dct>>
RECURSIVE RebalanceWalk(_, _, _, _)
RebalanceWalk(T, cur_nod, cr_vl, tmp_dct) ==
    LET T1 == [T EXCEPT !.nodes[cur_nod].value = <<cr_vl>>]
        sg == T.nodes[cur_nod].data.sg_ix
        dct == [i \in (DOMAIN tmp_dct) \cup {sg} |->
                   IF i = sg THEN <<cr_vl>> ELSE tmp_dct[i]]
        nxt == next_up(T1, cur_nod)
    IN  IF nxt = Nil THEN <<T1, dct>>
        ELSE RebalanceWalk(T1, nxt, cr_vl + VALUE_SPREAD, dct)

rebalance_values(T) ==
    LET nm_nd == node_count(T)
        cr_vl == -VALUE_SPREAD * (nm_nd \div 2)
        cur_nod == get_min_node(T)
    IN  IF cur_nod = Nil THEN T
        ELSE LET res == RebalanceWalk(T, cur_nod, cr_vl, [i \in {} |-> 0])
             IN  [res[1] EXCEPT !.node_index = res[2]]

\* the code after "currentNode.<side>_child = Node(None, data)": mint the
\* node value from the neighbours, record it, restore the AVL shape
\* "if reb_vls: self.rebalance_values()"
RebalanceValuesIf(T, reb_vls) == IF reb_vls THEN rebalance_values(T) ELSE T

PlaceNode(T, currentNode, id, node_up, node_dn, old_height) ==
    LET sg == T.nodes[id].data.sg_ix
        none_side == IF node_up = currentNode THEN node_dn ELSE node_up
        nod_val ==
            IF none_side = Nil
            THEN IF node_up = currentNode
                 THEN T.nodes[node_up].value[1] - VALUE_SPREAD
                 ELSE T.nodes[node_dn].value[1] + VALUE_SPREAD
            ELSE (T.nodes[node_up].value[1] + T.nodes[node_dn].value[1])
                     \div 2
        reb_vls ==
            /\ none_side # Nil
            /\ Abs(T.nodes[node_up].value[1] - T.nodes[node_dn].value[1])
                  < VALUE_MIN
        T1 == [T EXCEPT !.nodes[id].value = <<nod_val>>]
        T2 == SetIndex(T1, sg, <<nod_val>>)
    IN  RebalanceValuesIf(InsertFixup(T2, currentNode, old_height), reb_vls)

\* AVLStatusTree._insertNode returns the pair <<tree, in_ok>>
\* the new child id hangs under currentNode: on the left the neighbours are
\* "node_up = currentNode; node_dn = self.next_dn(child_node)", on the
\* right "node_up = self.next_up(child_node); node_dn = currentNode"
PlaceChild(T, currentNode, id, to_left, old_height) ==
    PlaceNode(T, currentNode, id,
              IF to_left THEN currentNode ELSE next_up(T, id),
              IF to_left THEN next_dn(T, id) ELSE currentNode,
              old_height)

\* AVLStatusTree._insertNode returns the pair <<tree, in_ok>>
RECURSIVE status_insertNode(_, _, _)
status_insertNode(T, currentNode, data) ==
    LET cur == T.nodes[currentNode]
        below == Segment__gt__(cur.data.seg, data.seg)
        above == ~below /\ Segment__gt__(data.seg, cur.data.seg)
    IN  IF below /\ cur.left_child # Nil
        THEN status_insertNode(T, cur.left_child, data)
        ELSE IF above /\ cur.right_child # Nil
        THEN status_insertNode(T, cur.right_child, data)
        ELSE IF below \/ above
        THEN <<PlaceChild(NewChild(T, currentNode, below,
                                   AVLNode(NoneVal, data)),
                          currentNode, NewId(T), below, cur.height), TRUE>>
        ELSE <<T, FALSE>>

status_insert(T, data) ==
    CountNode(IF T.root = Nil
              THEN <<SetIndex(setRoot(T, <<0>>, data), data.sg_ix, <<0>>),
                     TRUE>>
              ELSE status_insertNode(T, T.root, data))

\* get_node_value raises KeyError for an index not in node_index (InIndex
\* false), which the caller tests first
InIndex(T, sg_ix) == sg_ix \in DOMAIN T.node_index

get_node_value(T, sg_ix) == T.node_index[sg_ix]

\* delete_segment, called for an index that is in node_index
\* "del self.node_index[sg_ix]" after delete_value returned res
DropIndex(res, sg_ix) == <<DelIndex(res[1], sg_ix), res[2]>>

delete_segment(T, sg_ix) ==
    DropIndex(delete_value(T, get_node_value(T, sg_ix)), sg_ix)

\* swap_segs, called for two indices that are in node_index
swap_segs(T, ix_1, ix_2) ==
    LET val_1 == T.node_index[ix_1]
        val_2 == T.node_index[ix_2]
        node_1 == search(T, val_1)
        node_2 == search(T, val_2)
        tmp_dat == T.nodes[node_1].data
        T1 == [T EXCEPT !.nodes[node_1].data = T.nodes[node_2].data]
        T2 == [T1 EXCEPT !.nodes[node_2].data = tmp_dat]
    IN  SetIndex(SetIndex(T2, ix_1, val_2), ix_2, val_1)

\* ------------------------------------------------------------------------
\* sweep_line.py : seg_int_pts, check_segs, update_events
\* ------------------------------------------------------------------------
\* num / den rounded to the nearest fixed-point unit (den > 0)
Round(num, den) == (2 * num + den) \div (2 * den)

Near(p, q) == Abs(p[1] - q[1]) < TOL_ACC /\ Abs(p[2] - q[2]) < TOL_ACC

\* variant of AxisTest that never finds an endpoint internal to the axis
AxisTest_NeverInternal(org, v, pt) ==
    LET w == Sub(pt, org)
        sgn == Cross(w, v)
        axs == WithinTol(sgn, NormSq(v))
    IN  [sgn |-> sgn, axs |-> axs, lo |-> axs, hi |-> FALSE, int |-> FALSE]

\* one pass of a loop of seg_int_pts: endpoint pt against the axis through
\* org with direction v.  sgn stands for sgns[ii] (times |v|), axs for
\* axs_tst[ii][0], lo / hi for axs_tst[ii][1] and int for ept_int[ii]
AxisTest(org, v, pt) ==
    LET w == Sub(pt, org)
        sgn == Cross(w, v)
        axs == WithinTol(sgn, NormSq(v))
        tmp_pos == Dot(w, v)
        lo == axs /\ UnderTol(tmp_pos, NormSq(v))
        hi == axs /\ OverTol(tmp_pos - NormSq(v), NormSq(v))
    IN  [sgn |-> sgn, axs |-> axs, lo |-> lo, hi |-> hi,
         int |-> axs /\ ~lo /\ ~hi]

\* results of seg_int_pts: (None, None), (None, inf), ((role, role), [x,y])
\* and a ZeroDivisionError raised on a zero-length axis
IntNone == [kind |-> "none", tup |-> <<>>, pt |-> <<>>]
IntInf == [kind |-> "inf", tup |-> <<>>, pt |-> <<>>]
IntErr == [kind |-> "ZeroDivisionError", tup |-> <<>>, pt |-> <<>>]
IntPoint(r1, r2, pt) == [kind |-> "point", tup |-> <<r1, r2>>, pt |-> pt]

\* variant of seg_int_pts_cross that puts the ratio on the wrong distance
seg_int_pts_cross_WrongRatio(p11, p12, s0, s1) ==
    LET v == Sub(p12, p11)
    IN  IF Abs(s0) + Abs(s1) = 0 THEN IntErr
        ELSE IntPoint("internal", "internal",
                <<p11[1] + Round(Abs(s1) * v[1], Abs(s0) + Abs(s1)),
                  p11[2] + Round(Abs(s1) * v[2], Abs(s0) + Abs(s1))>>)

\* the last statements of seg_int_pts: the crossing point
seg_int_pts_cross(p11, p12, s0, s1) ==
    LET v == Sub(p12, p11)
    IN  IF Abs(s0) + Abs(s1) = 0 THEN IntErr
        ELSE IntPoint("internal", "internal",
                <<p11[1] + Round(Abs(s0) * v[1], Abs(s0) + Abs(s1)),
                  p11[2] + Round(Abs(s0) * v[2], Abs(s0) + Abs(s1))>>)

\* seg_int_pts with the two loops done: a holds the tests of the endpoints
\* of seg_2 against the axis of seg_1 (lines 218-236), b those of the
\* endpoints of seg_1 against the axis of seg_2 (lines 259-273)
Classify(seg_1, seg_2, a, b) ==
    LET p11 == seg_1[1]
        p12 == seg_1[2]
        p21 == seg_2[1]
        p22 == seg_2[2]
        v1 == Sub(p12, p11)
        v2 == Sub(p22, p21)
        lr_arr == <<"left", "right">>
    IN  IF Near(p11, p21) THEN IntPoint("left", "left", p11)
        ELSE IF Near(p11, p22) THEN IntPoint("left", "right", p11)
        ELSE IF Near(p12, p21) THEN IntPoint("right", "left", p12)
        ELSE IF Near(p12, p22) THEN IntPoint("right", "right", p22)
        ELSE IF NormSq(v1) = 0 THEN IntErr
        ELSE IF a[1].axs \/ a[2].axs
        THEN IF a[1].axs # a[2].axs
             THEN IF a[1].int THEN IntPoint("internal", lr_arr[1], seg_2[1])
                  ELSE IF a[2].int
                  THEN IntPoint("internal", lr_arr[2], seg_2[2])
                  ELSE IntNone
             ELSE IF (a[1].lo /\ a[2].lo) \/ (a[1].hi /\ a[2].hi)
                  THEN IntNone
                  ELSE IntInf
        ELSE IF (a[1].sgn > 0 /\ a[2].sgn > 0)
                \/ (a[1].sgn < 0 /\ a[2].sgn < 0)
        THEN IntNone
        ELSE IF NormSq(v2) = 0 THEN IntErr
        ELSE IF (b[1].axs \/ b[2].axs) /\ b[1].axs # b[2].axs
        THEN IF b[1].int THEN IntPoint(lr_arr[1], "internal", seg_1[1])
             ELSE IF b[2].int THEN IntPoint(lr_arr[2], "internal", seg_1[2])
             ELSE IntNone
        ELSE IF ~(b[1].axs \/ b[2].axs)
                /\ ((b[1].sgn > 0 /\ b[2].sgn > 0)
                    \/ (b[1].sgn < 0 /\ b[2].sgn < 0))
        THEN IntNone
        ELSE seg_int_pts_cross(p11, p12, b[1].sgn, b[2].sgn)

\* variant of seg_int_pts whose second loop leaves sgns as the first loop
\* set them
seg_int_pts_FirstSigns(seg_1, seg_2) ==
    Classify(seg_1, seg_2,
             <<AxisTest(seg_1[1], Sub(seg_1[2], seg_1[1]), seg_2[1]),
               AxisTest(seg_1[1], Sub(seg_1[2], seg_1[1]), seg_2[2])>>,
             <<AxisTest(seg_1[1], Sub(seg_1[2], seg_1[1]), seg_2[1]),
               AxisTest(seg_1[1], Sub(seg_1[2], seg_1[1]), seg_2[2])>>)

seg_int_pts(seg_1, seg_2) ==
    Classify(seg_1, seg_2,
             <<AxisTest(seg_1[1], Sub(seg_1[2], seg_1[1]), seg_2[1]),
               AxisTest(seg_1[1], Sub(seg_1[2], seg_1[1]), seg_2[2])>>,
             <<AxisTest(seg_2[1], Sub(seg_2[2], seg_2[1]), seg_1[1]),
               AxisTest(seg_2[1], Sub(seg_2[2], seg_2[1]), seg_1[2])>>)

\* check_segs raises IndexError on a segment with an endpoint that
\* proc_segs left as the empty list
BadSeg(seg) == seg[1] = <<>> \/ seg[2] = <<>>

\* the body of the loop of check_segs, for a segment with both endpoints
check_seg(seg) ==
    IF seg[1][2] # seg[2][2]
    THEN IF seg[1][1] > seg[2][1] THEN <<seg[2], seg[1]>> ELSE seg
    ELSE IF seg[1][2] > seg[2][2] THEN <<seg[2], seg[1]>> ELSE seg

check_segs(seg_lst) ==
    IF \E i \in 1..Len(seg_lst) : BadSeg(seg_lst[i])
    THEN [err |-> "IndexError", segs |-> <<>>]
    ELSE [err |-> "",
          segs |-> [i \in 1..Len(seg_lst) |-> check_seg(seg_lst[i])]]

\* "seg_lst = [seg_dct[ii] for ii in range(len(seg_dct))]"
ListOfDict(seg_dct) ==
    LET n == Cardinality(DOMAIN seg_dct.dct)
    IN  IF seg_dct.err # "" THEN [err |-> seg_dct.err, segs |-> <<>>]
        ELSE IF \E ii \in 0..(n - 1) : ii \notin DOMAIN seg_dct.dct
        THEN [err |-> "KeyError", segs |-> <<>>]
        ELSE [err |-> "", segs |-> [i \in 1..n |-> seg_dct.dct[i - 1]]]

\* "seg_dct = events.get_sgs(); seg_lst = [...]"
segs_from_events(T) == ListOfDict(proc_segs(T))

\* "seg_dct = events.get_sgs(); seg_lst = [...]; check_segs(seg_lst)"
CheckGot(got) ==
    IF got.err # "" THEN got ELSE check_segs(got.segs)

checked_segs(T) == CheckGot(segs_from_events(T))

\* variant of AddFound that takes a reported overlap for no intersection
AddFound_OverlapIgnored(val, ix_1, ix_2, events, res) ==
    IF res.kind = "ZeroDivisionError"
    THEN [err |-> res.kind, events |-> events]
    ELSE IF res.kind = "point"
            /\ Less(<<val[1] - TOL_ACC, val[2] - TOL_ACC>>, res.pt)
    THEN [err |-> "",
          events |-> add_point(events, res.pt[1], res.pt[2],
                         {<<ix_1, res.tup[1]>>, <<ix_2, res.tup[2]>>})]
    ELSE [err |-> "", events |-> events]

\* variant of AddFound that adds a point only when it is after val
AddFound_FutureOnly(val, ix_1, ix_2, events, res) ==
    IF res.kind = "ZeroDivisionError"
    THEN [err |-> res.kind, events |-> events]
    ELSE IF res.kind = "inf"
    THEN [err |-> "ValueError", events |-> events]
    ELSE IF res.kind = "point" /\ Less(val, res.pt)
    THEN [err |-> "",
          events |-> add_point(events, res.pt[1], res.pt[2],
                         {<<ix_1, res.tup[1]>>, <<ix_2, res.tup[2]>>})]
    ELSE [err |-> "", events |-> events]

\* update_events after the call of seg_int_pts returned res
AddFound(val, ix_1, ix_2, events, res) ==
    IF res.kind = "ZeroDivisionError"
    THEN [err |-> res.kind, events |-> events]
    ELSE IF res.kind = "inf"
    THEN [err |-> "ValueError", events |-> events]
    ELSE IF res.kind = "point"
            /\ Less(<<val[1] - TOL_ACC, val[2] - TOL_ACC>>, res.pt)
    THEN [err |-> "",
          events |-> add_point(events, res.pt[1], res.pt[2],
                         {<<ix_1, res.tup[1]>>, <<ix_2, res.tup[2]>>})]
    ELSE [err |-> "", events |-> events]

\* update_events: the event tree afterwards, or the exception raised
update_events(val, seg_lst, ix_1, ix_2, events) ==
    IF ix_1 + 1 > Len(seg_lst) \/ ix_2 + 1 > Len(seg_lst)
    THEN [err |-> "IndexError", events |-> events]
    ELSE AddFound(val, ix_1, ix_2, events,
                  seg_int_pts(seg_lst[ix_1 + 1], seg_lst[ix_2 + 1]))

\* ------------------------------------------------------------------------
\* Node ids are object identities and are not observable: after each
\* operation the heap is renumbered in in-order position.
\* ------------------------------------------------------------------------
RECURSIVE InOrderIds(_, _)
InOrderIds(T, n) ==
    IF n = Nil THEN <<>>
    ELSE InOrderIds(T, T.nodes[n].left_child) \o <<n>>
         \o InOrderIds(T, T.nodes[n].right_child)

Canon(T) ==
    LET ids == InOrderIds(T, T.root)
        rank(n) == IF n = Nil THEN Nil
                   ELSE CHOOSE i \in 1..Len(ids) : ids[i] = n
    IN  [T EXCEPT
           !.root = rank(T.root),
           !.nodes = [i \in 1..Len(ids) |->
                        LET nd == T.nodes[ids[i]]
                        IN  [nd EXCEPT !.parent = rank(nd.parent),
                                       !.left_child = rank(nd.left_child),
                                       !.right_child = rank(nd.right_child)]]]

\* ------------------------------------------------------------------------
\* sweep_line.py : run_sweep_line
\* Segment indices are 0-based as in the source; seg_lst[ix] of the source
\* is seg_lst[ix + 1] here.
\* ------------------------------------------------------------------------
\* a list comprehension over a set visits the members in an order the
\* program does not control: every list of the members of S, each once
Orders(S) ==
    {f \in [1..Cardinality(S) -> S] :
        \A i, j \in 1..Cardinality(S) : i # j => f[i] # f[j]}

\* "[x[0] for x in dat if x[1] == role]", as a set
RoleSegs(dat, role) == {tup[1] : tup \in {t \in dat : t[2] = role}}

\* max(vs) / min(vs) of a non-empty list of node values
SeqMax(vs) ==
    vs[CHOOSE i \in 1..Len(vs) : \A j \in 1..Len(vs) : ~Less(vs[i], vs[j])]

SeqMin(vs) ==
    vs[CHOOSE i \in 1..Len(vs) : \A j \in 1..Len(vs) : ~Less(vs[j], vs[i])]

\* position of the first greatest / first least value, as max and min with
\* a key return it
FirstMax(vs) ==
    CHOOSE i \in 1..Len(vs) :
        /\ \A j \in 1..Len(vs) : ~Less(vs[i], vs[j])
        /\ \A j \in 1..(i - 1) : Less(vs[j], vs[i])

FirstMin(vs) ==
    CHOOSE i \in 1..Len(vs) :
        /\ \A j \in 1..Len(vs) : ~Less(vs[j], vs[i])
        /\ \A j \in 1..(i - 1) : Less(vs[i], vs[j])

\* lines 361-368: a near-vertical segment is made truly vertical
near_vertical(seg) == Abs(seg[1][1] - seg[2][1]) <= TOL_ACC

\* variant of make_vertical that keeps the x of the first endpoint
make_vertical_AtFirst(seg) ==
    IF near_vertical(seg) THEN << seg[1], <<seg[1][1], seg[2][2]>> >>
    ELSE seg

make_vertical(seg) ==
    IF near_vertical(seg) THEN << <<seg[2][1], seg[1][2]>>, seg[2] >>
    ELSE seg

\* the indices ii (0-based) of seg_lst that satisfy / do not satisfy the
\* near-vertical test, ascending
RECURSIVE IndexList(_, _, _)
IndexList(seg_lst, ii, want) ==
    IF ii >= Len(seg_lst) THEN <<>>
    ELSE (IF near_vertical(seg_lst[ii + 1]) = want THEN <<ii>> ELSE <<>>)
         \o IndexList(seg_lst, ii + 1, want)

\* "for sg_ix in L_segs: T_status.delete_segment(sg_ix)"
RECURSIVE DeleteSegs(_, _, _)
DeleteSegs(T, L_segs, i) ==
    IF i > Len(L_segs) THEN T
    ELSE DeleteSegs(delete_segment(T, L_segs[i])[1], L_segs, i + 1)

\* lines 472-479: the pairs (C_segs[ii], C_segs[-(ii + 1)])
swp_lst(C_segs) ==
    [ii \in 1..(Len(C_segs) \div 2) |->
        <<C_segs[ii], C_segs[Len(C_segs) + 1 - ii]>>]

\* "for tup in swp_lst: T_status.swap_segs(*tup)"; err is the exception
RECURSIVE SwapAll(_, _, _)
SwapAll(T, lst, i) ==
    IF i > Len(lst) THEN [err |-> "", T |-> T]
    ELSE IF ~InIndex(T, lst[i][1]) \/ ~InIndex(T, lst[i][2])
    THEN [err |-> "KeyError", T |-> T]
    ELSE IF \/ search(T, T.node_index[lst[i][1]]) = Nil
            \/ search(T, T.node_index[lst[i][2]]) = Nil
    THEN [err |-> "AttributeError", T |-> T]
    ELSE SwapAll(swap_segs(T, lst[i][1], lst[i][2]), lst, i + 1)

\* lines 485-487: insert the beginning segments; err is the exception
RECURSIVE InsertSegs(_, _, _, _)
InsertSegs(T, seg_lst, U_segs, i) ==
    IF i > Len(U_segs) THEN [err |-> "", T |-> T]
    ELSE IF U_segs[i] + 1 > Len(seg_lst)
    THEN [err |-> "IndexError", T |-> T]
    ELSE IF ZeroLength(seg_lst[U_segs[i] + 1])
    THEN [err |-> "ZeroDivisionError", T |-> T]
    ELSE InsertSegs(
             status_insert(T, NodeData(U_segs[i],
                                  Segment(seg_lst[U_segs[i] + 1])))[1],
             seg_lst, U_segs, i + 1)

\* the call of update_events for a neighbour nb = <<value, data>> that is
\* not None, as a one-element list of index pairs
TestPair(nb, ix) == IF nb[1] # NoneVal THEN << <<nb[2].sg_ix, ix>> >> ELSE <<>>

\* variant of NeighbourPairs that looks above the lowest entry of U+C
\* where the source looks above the highest
NeighbourPairs_AboveLowest(T, U_segs, C_segs, L_hn, L_ln) ==
    IF Len(U_segs) + Len(C_segs) = 0
    THEN IF L_hn[1] # NoneVal /\ L_ln[1] # NoneVal
         THEN << <<L_hn[2].sg_ix, L_ln[2].sg_ix>> >>
         ELSE <<>>
    ELSE LET UC == U_segs \o C_segs
             UC_nd_vs == [i \in 1..Len(UC) |-> get_node_value(T, UC[i])]
             mn == FirstMin(UC_nd_vs)
         IN  TestPair(hi_neighbor(T, UC_nd_vs[mn]), UC[mn])
             \o TestPair(lo_neighbor(T, UC_nd_vs[mn]), UC[mn])

\* lines 489-521: the index pairs handed to update_events, in order.
\* L_hn / L_ln are the neighbours that were found before the deletions.
NeighbourPairs(T, U_segs, C_segs, L_hn, L_ln) ==
    IF Len(U_segs) + Len(C_segs) = 0
    THEN IF L_hn[1] # NoneVal /\ L_ln[1] # NoneVal
         THEN << <<L_hn[2].sg_ix, L_ln[2].sg_ix>> >>
         ELSE <<>>
    ELSE LET UC == U_segs \o C_segs
             UC_nd_vs == [i \in 1..Len(UC) |-> get_node_value(T, UC[i])]
             mx == FirstMax(UC_nd_vs)
             mn == FirstMin(UC_nd_vs)
         IN  TestPair(hi_neighbor(T, UC_nd_vs[mx]), UC[mx])
             \o TestPair(lo_neighbor(T, UC_nd_vs[mn]), UC[mn])

\* the calls of update_events for pairs[i..], stopped by the first exception
RECURSIVE RunTests(_, _, _, _, _)
TestsAfter(val, seg_lst, r, pairs, i) ==
    IF r.err # "" THEN r ELSE RunTests(val, seg_lst, r.events, pairs, i)

RunTests(val, seg_lst, events, pairs, i) ==
    IF i > Len(pairs) THEN [err |-> "", events |-> events]
    ELSE TestsAfter(val, seg_lst,
                    update_events(val, seg_lst, pairs[i][1], pairs[i][2],
                                  events),
                    pairs, i + 1)

\* lines 489-521: the neighbour tests after the status tree is updated;
\* get_node_value raises KeyError for a segment of U+C not in the tree
NeighbourTests(val, seg_lst, events, T, U_segs, C_segs, L_hn, L_ln) ==
    IF \E i \in 1..Len(U_segs \o C_segs) : ~InIndex(T, (U_segs \o C_segs)[i])
    THEN [err |-> "KeyError", events |-> events]
    ELSE RunTests(val, seg_lst, events,
                  NeighbourPairs(T, U_segs, C_segs, L_hn, L_ln), 1)

\* lines 453-461: <<[L_hn, lh_dat], [L_ln, ll_dat]>>, the neighbours of the
\* ending segments, looked up only when no segment begins or passes
SavedNeighbours(T_status, L_segs, U_segs, C_segs) ==
    LET L_nd_vs == [i \in 1..Len(L_segs) |->
                       get_node_value(T_status, L_segs[i])]
        wanted == Len(L_segs) > 0 /\ Len(U_segs) + Len(C_segs) = 0
        none == <<NoneVal, NoneVal>>
    IN  <<IF wanted THEN hi_neighbor(T_status, SeqMax(L_nd_vs)) ELSE none,
          IF wanted THEN lo_neighbor(T_status, SeqMin(L_nd_vs)) ELSE none>>

\* the result of a pass: the exception, the event tree, the status tree
PassResult(tst, T) == [err |-> tst.err, events |-> tst.events, T |-> T]

\* lines 489-521, when the insertions of lines 483-487 returned ins
AfterInsert(val, seg_lst, events, ins, L_segs, C_segs, U_segs, L_nb) ==
    IF ins.err # ""
    THEN [err |-> ins.err, events |-> events, T |-> ins.T]
    ELSE IF Len(U_segs) + Len(C_segs) = 0 /\ Len(L_segs) = 0
    THEN [err |-> "NameError", events |-> events, T |-> ins.T]
    ELSE PassResult(NeighbourTests(val, seg_lst, events, ins.T, U_segs,
                                   C_segs, L_nb[1], L_nb[2]),
                    ins.T)

\* lines 483-521, when the swaps of lines 470-481 returned sw
AfterSwap(val, seg_lst, events, sw, L_segs, C_segs, U_segs, L_nb) ==
    IF sw.err # ""
    THEN [err |-> sw.err, events |-> events, T |-> sw.T]
    ELSE AfterInsert(val, seg_lst, events,
                     InsertSegs(sw.T, seg_lst, U_segs, 1),
                     L_segs, C_segs, U_segs, L_nb)

\* lines 470-521, when the deletions of lines 466-468 left the tree T1
AfterDelete(val, seg_lst, events, T1, L_segs, C_segs, U_segs, L_nb) ==
    AfterSwap(val, seg_lst, events,
              IF Len(C_segs) > 1 THEN SwapAll(T1, swp_lst(C_segs), 1)
              ELSE [err |-> "", T |-> T1],
              L_segs, C_segs, U_segs, L_nb)

\* one pass of "while val is not None" (lines 429-521) for the event
\* (val, dat), with the three lists in the order the set gave them; the
\* result is the exception raised, the event tree and the status tree
loop_body(val, seg_lst, events, T_status, L_segs, C_segs, U_segs) ==
    IF \E i \in 1..Len(L_segs) : ~InIndex(T_status, L_segs[i])
    THEN [err |-> "KeyError", events |-> events, T |-> T_status]
    ELSE AfterDelete(val, seg_lst, events,
                     DeleteSegs(T_status, L_segs, 1),
                     L_segs, C_segs, U_segs,
                     SavedNeighbours(T_status, L_segs, U_segs, C_segs))

\* ------------------------------------------------------------------------
\* State
\* ------------------------------------------------------------------------
VARIABLES
    tree,      \* SpecTree: an AVLTree with number keys <<k>>
    live,      \* SpecTree: keys inserted and not deleted since
    last,      \* the last call of interest and what it returned
    inp_lst,   \* run_sweep_line: the caller's list
    seg_lst,   \* run_sweep_line: the working segment list
    vt_sg_ix,  \* run_sweep_line: indices of the near-vertical segments
    seg_ixs,   \* run_sweep_line: the loading order of the indices
    cnt,       \* run_sweep_line: passes made through the current for loop
    events,    \* run_sweep_line: events.Q_tree
    T_status,  \* run_sweep_line: the status tree
    val,       \* run_sweep_line: the current event point, NoneVal for None
    dat,       \* run_sweep_line: the current event's set
    pc,        \* run_sweep_line: the position reached in the function
    err,       \* run_sweep_line: the exception that ended the call
    evt_lst    \* run_sweep_line: the returned event list

treeVars == <<tree, live>>
sweepVars == <<inp_lst, seg_lst, vt_sg_ix, seg_ixs, cnt, events, T_status,
               val, dat, pc, err, evt_lst>>
vars == <<tree, live, last, inp_lst, seg_lst, vt_sg_ix, seg_ixs, cnt, events,
          T_status, val, dat, pc, err, evt_lst>>

\* ------------------------------------------------------------------------
\* SpecTree: any sequence of insert / delete_value calls on one AVLTree
\* ------------------------------------------------------------------------
Keys == 1..MaxKey
Datas == 0..MaxData

\* the variables of a call of run_sweep_line before the call is made
NoRun ==
    /\ seg_lst = <<>>
    /\ vt_sg_ix = <<>>
    /\ seg_ixs = <<>>
    /\ cnt = 0
    /\ events = AVLTree
    /\ T_status = AVLStatusTree
    /\ val = NoneVal
    /\ dat = {}
    /\ err = ""
    /\ evt_lst = <<>>

InitTree ==
    /\ tree = AVLTree
    /\ live = {}
    /\ last = [op |-> "none", key |-> 0, ret |-> FALSE]
    /\ inp_lst = <<>>
    /\ pc = "idle"
    /\ NoRun

TreeInsert(k, d) ==
    LET res == insert(tree, <<k>>, d)
    IN  /\ tree' = Canon(res[1])
        /\ live' = live \cup {k}
        /\ last' = [op |-> "insert", key |-> k, ret |-> res[2]]
        /\ UNCHANGED sweepVars

\* nodes_count is decremented by every delete_value that finds its key; the
\* guard keeps the counter in a finite range
TreeDelete(k) ==
    LET res == delete_value(tree, <<k>>)
    IN  /\ Cardinality(DOMAIN res[1].nodes) - res[1].nodes_count <= MaxDrift
        /\ tree' = Canon(res[1])
        /\ live' = live \ {k}
        /\ last' = [op |-> "delete_value", key |-> k, ret |-> res[2]]
        /\ UNCHANGED sweepVars

NextTree ==
    \/ \E k \in Keys, d \in Datas : TreeInsert(k, d)
    \/ \E k \in Keys : TreeDelete(k)

SpecTree == InitTree /\ [][NextTree]_vars

\* ------------------------------------------------------------------------
\* SpecSweep: one call of run_sweep_line on a list of segments whose
\* endpoints lie on a grid of spacing Step
\* ------------------------------------------------------------------------
GridPoints == {<<Step * i, Step * j>> : i \in 0..MaxX, j \in 0..MaxY}

\* the segments [p, q] with p # q over a set of points
SegmentsOver(P) == {pq \in P \X P : pq[1] # pq[2]}

\* the lists of 1..n members of S
ListsOver(S, n) == UNION {[1..m -> S] : m \in 1..n}

NoCall == [op |-> "none"]

InitRun(inputs) ==
    /\ inp_lst \in inputs
    /\ pc = "start"
    /\ NoRun
    /\ tree = AVLTree
    /\ live = {}
    /\ last = NoCall

InitSweep == InitRun(ListsOver(SegmentsOver(GridPoints), MaxSegs))

\* line 39
DEBUG_PLOT == TRUE

\* the call is about to end with the exception e.  breakpoint() stands
\* before each "raise ValueError" (lines 68-69 and 320-321): there the call
\* first stops in the debugger, and raises when the debugger lets it go on
Raise(e) ==
    /\ pc' = IF e = "ValueError" THEN "breakpoint" ELSE "error"
    /\ err' = e

\* lines 355-386: the working copy, the vertical snap, check_segs and the
\* loading order
\* variant of deepcopy that hands back the caller's own list
deepcopy_SameObject(lst) == [obj |-> "inp_lst", segs |-> lst]

\* line 355, copy.deepcopy(inp_lst): a new list object, named by [obj], of
\* new segments and new points with the contents of lst
deepcopy(lst) == [obj |-> "seg_lst", segs |-> lst]

\* lines 361-386 write into the object cp.obj: make_vertical and check_segs
\* assign to the members of the list that line 355 returned
WrittenLists(cp, segs) ==
    /\ seg_lst' = segs
    /\ inp_lst' = IF cp.obj = "inp_lst" THEN segs ELSE inp_lst

SnapAndOrder(cp) ==
    WrittenLists(cp, check_segs([i \in 1..Len(cp.segs) |->
                                    make_vertical(cp.segs[i])]).segs)

Start ==
    /\ pc = "start"
    /\ SnapAndOrder(deepcopy(inp_lst))
    /\ vt_sg_ix' = IndexList(inp_lst, 0, TRUE)
    /\ seg_ixs' = IndexList(inp_lst, 0, TRUE) \o IndexList(inp_lst, 0, FALSE)
    /\ cnt' = 0
    /\ pc' = "load"
    /\ UNCHANGED <<tree, live, last, events, T_status, val, dat, err,
                   evt_lst>>

lr_label == <<"left", "right">>

\* lines 389-392: one call of events.add_point in the loading loop
LoadPoint ==
    /\ pc = "load"
    /\ cnt < 2 * Len(seg_lst)
    /\ LET ix == seg_ixs[(cnt \div 2) + 1]
           jj == cnt % 2
           pt == seg_lst[ix + 1][jj + 1]
           seg_dat == {<<ix, lr_label[jj + 1]>>}
       IN  /\ events' = Canon(add_point(events, pt[1], pt[2], seg_dat))
           /\ last' = [op |-> "add_point", pt |-> pt, seg_dat |-> seg_dat,
                       before |-> traverse(events)]
    /\ cnt' = cnt + 1
    /\ UNCHANGED <<tree, live, inp_lst, seg_lst, vt_sg_ix, seg_ixs,
                   T_status, val, dat, pc, err, evt_lst>>

\* the end of PostLoad, when lines 397-399 returned chk
LoadedSegs(chk) ==
    IF chk.err # ""
    THEN Raise(chk.err) /\ UNCHANGED <<seg_lst, cnt>>
    ELSE /\ seg_lst' = chk.segs
         /\ cnt' = 0
         /\ pc' = "glom"
         /\ UNCHANGED err

\* lines 397-399: the segment list is read back from the event tree
PostLoad ==
    /\ pc = "load"
    /\ cnt = 2 * Len(seg_lst)
    /\ LoadedSegs(checked_segs(events))
    /\ last' = NoCall
    /\ UNCHANGED <<tree, live, inp_lst, vt_sg_ix, seg_ixs, events,
                   T_status, val, dat, evt_lst>>

\* lines 408-409: one call of events.glom_to_seg
GlomVertical ==
    /\ pc = "glom"
    /\ cnt < Len(vt_sg_ix)
    /\ LET ix == vt_sg_ix[cnt + 1]
       IN  IF ix + 1 > Len(seg_lst)
           THEN Raise("IndexError") /\ UNCHANGED <<events, cnt, last>>
           ELSE /\ events' = Canon(glom_to_seg(events, seg_lst[ix + 1]))
                /\ last' = [op |-> "glom_to_seg", seg |-> seg_lst[ix + 1],
                            before |-> traverse(events)]
                /\ cnt' = cnt + 1
                /\ UNCHANGED <<pc, err>>
    /\ UNCHANGED <<tree, live, inp_lst, seg_lst, vt_sg_ix, seg_ixs,
                   T_status, val, dat, evt_lst>>

\* the end of PostGlom, when lines 411-413 returned chk and get_min mn
GlommedSegs(chk, mn) ==
    IF chk.err # ""
    THEN Raise(chk.err) /\ UNCHANGED <<seg_lst, T_status, val, dat>>
    ELSE /\ seg_lst' = chk.segs
         /\ T_status' = AVLStatusTree
         /\ val' = mn[1]
         /\ dat' = mn[2]
         /\ pc' = "loop"
         /\ UNCHANGED err

\* lines 411-427: the segment list is read back again, the status tree is
\* created and the first event is fetched
PostGlom ==
    /\ pc = "glom"
    /\ cnt = Len(vt_sg_ix)
    /\ GlommedSegs(checked_segs(events), get_min(events))
    /\ last' = NoCall
    /\ UNCHANGED <<tree, live, inp_lst, vt_sg_ix, seg_ixs, cnt, events,
                   evt_lst>>

\* line 531, "val, dat = events.hi_neighbor(val)" returning nxt, after a
\* pass that returned res; an exception leaves the call, with the two
\* trees as the pass had changed them when it was raised
NextEvent(res, nxt) ==
    IF res.err # ""
    THEN /\ Raise(res.err)
         /\ events' = Canon(res.events)
         /\ T_status' = Canon(res.T)
         /\ UNCHANGED <<val, dat>>
    ELSE /\ events' = Canon(res.events)
         /\ T_status' = Canon(res.T)
         /\ val' = nxt[1]
         /\ dat' = nxt[2]
         /\ UNCHANGED <<pc, err>>

\* variant of EndPass that looks for the next event in the store as it was
\* before the pass
EndPass_OldStore(res) == NextEvent(res, hi_neighbor(events, val))

\* variant of EndPass that passes over the event after the current one
EndPass_SkipOne(res) ==
    LET nxt == hi_neighbor(res.events, val)
    IN  NextEvent(res, IF nxt[1] = NoneVal THEN nxt
                       ELSE hi_neighbor(res.events, nxt[1]))

EndPass(res) == NextEvent(res, hi_neighbor(res.events, val))

\* lines 429-531: one pass of the main loop
ProcessEvent ==
    /\ pc = "loop"
    /\ val # NoneVal
    /\ \E L_segs \in Orders(RoleSegs(dat, "right")),
          C_segs \in Orders(RoleSegs(dat, "internal")),
          U_segs \in Orders(RoleSegs(dat, "left")) :
          EndPass(loop_body(val, seg_lst, events, T_status,
                            L_segs, C_segs, U_segs))
    /\ last' = NoCall
    /\ UNCHANGED <<tree, live, inp_lst, seg_lst, vt_sg_ix, seg_ixs, cnt,
                   evt_lst>>

\* the end of Finish, when lines 535-536 returned got
Returned(got) ==
    IF got.err # ""
    THEN Raise(got.err) /\ UNCHANGED <<seg_lst, evt_lst>>
    ELSE /\ seg_lst' = got.segs
         /\ evt_lst' = traverse(events)
         /\ pc' = IF DEBUG_PLOT THEN "input" ELSE "done"
         /\ UNCHANGED err

\* lines 535-541: the results are read from the event tree; with DEBUG_PLOT
\* the call then waits in input("press a key: ")
Finish ==
    /\ pc = "loop"
    /\ val = NoneVal
    /\ Returned(segs_from_events(events))
    /\ last' = NoCall
    /\ UNCHANGED <<tree, live, inp_lst, vt_sg_ix, seg_ixs, cnt, events,
                   T_status, val, dat>>

\* the call is waiting for the terminal, in input() of line 541 or in the
\* debugger of breakpoint() (lines 68, 320), and the terminal answers: with
\* a line for input(), after which line 543 returns the result, or with
\* the command to continue for the debugger, after which the ValueError of
\* the next line is raised
Resume ==
    /\ pc \in {"input", "breakpoint"}
    /\ pc' = IF pc = "input" THEN "done" ELSE "error"
    /\ UNCHANGED <<tree, live, last, inp_lst, seg_lst, vt_sg_ix, seg_ixs,
                   cnt, events, T_status, val, dat, err, evt_lst>>

NextSweep ==
    \/ Resume
    \/ Start
    \/ LoadPoint
    \/ PostLoad
    \/ GlomVertical
    \/ PostGlom
    \/ ProcessEvent
    \/ Finish

SpecSweep == InitSweep /\ [][NextSweep]_vars

\* ------------------------------------------------------------------------
\* SpecThree: one call of run_sweep_line on three segments, each given with
\* its lower endpoint (in x, then y) first, on a grid one column wider
\* ------------------------------------------------------------------------
WidePoints ==
    {<<Step * i, Step * j>> : i \in 0..(MaxX + 1), j \in 0..MaxY}

LowFirst(S) == {seg \in S : Less(seg[1], seg[2])}

InitThree == InitRun([1..3 -> LowFirst(SegmentsOver(WidePoints))])

SpecThree == InitThree /\ [][NextSweep]_vars

\* ------------------------------------------------------------------------
\* SpecFine: one call of run_sweep_line on a vertical segment and a segment
\* that passes it from less than TOL_ACC to its left to less than TOL_ACC
\* to its right, with endpoints on rows one model unit apart
\* ------------------------------------------------------------------------
FineInputs ==
    {<< << <<TOL_ACC - 1, 0>>, <<TOL_ACC - 1, h>> >>,
        << <<0, a>>, <<2 * (TOL_ACC - 1), b>> >> >> :
        h \in 1..MaxFineY, a \in 0..MaxFineY, b \in 0..MaxFineY}

InitFine == InitRun(FineInputs)

SpecFine == InitFine /\ [][NextSweep]_vars

\* ------------------------------------------------------------------------
\* SpecStar: one call of run_sweep_line on three or four segments, each
\* given with its lower endpoint first, that cross a square of side
\* 2 * Step through its centre: the diagonals, the horizontal, the vertical
\* ------------------------------------------------------------------------
Centre == <<Step, Step>>

Diameters ==
    {seg \in LowFirst(SegmentsOver({<<Step * i, Step * j>> :
                                        i \in 0..2, j \in 0..2})) :
        /\ seg[1][1] + seg[2][1] = 2 * Centre[1]
        /\ seg[1][2] + seg[2][2] = 2 * Centre[2]}

StarInputs ==
    {lst \in [1..3 -> Diameters] \cup [1..4 -> Diameters] :
        \A i, j \in 1..Len(lst) : i # j => lst[i] # lst[j]}

InitStar == InitRun(StarInputs)

SpecStar == InitStar /\ [][NextSweep]_vars

\* ------------------------------------------------------------------------
\* SpecSnap: one call of run_sweep_line on a near-vertical segment from
\* (0, 0) to (d, MaxSnapY), |d| <= TOL_ACC, and a horizontal segment that
\* starts at x = 0 on a row more than TOL_ACC away from both of its ends
\* ------------------------------------------------------------------------
SnapInputs ==
    {<< << <<0, 0>>, <<d, MaxSnapY>> >>,
        << <<0, m>>, <<Step, m>> >> >> :
        d \in (-TOL_ACC)..TOL_ACC,
        m \in (TOL_ACC + 1)..(MaxSnapY - TOL_ACC - 1)}

InitSnap == InitRun(SnapInputs)

SpecSnap == InitSnap /\ [][NextSweep]_vars

\* ------------------------------------------------------------------------
\* SpecCopy: one call of run_sweep_line on the near-vertical segment of
\* SpecSnap and a rising segment that starts at x = 0, each of them given
\* in either order of its endpoints
\* ------------------------------------------------------------------------
Flip(seg) == <<seg[2], seg[1]>>

BothWays(seg) == {seg, Flip(seg)}

CopyInputs ==
    UNION {BothWays(<< <<0, 0>>, <<d, MaxSnapY>> >>)
              \X BothWays(<< <<0, m>>, <<Step, m + 1>> >>) :
              d \in (-TOL_ACC)..TOL_ACC,
              m \in (TOL_ACC + 1)..(MaxSnapY - TOL_ACC - 1)}

InitCopy == InitRun(CopyInputs)

SpecCopy == InitCopy /\ [][NextSweep]_vars

\* ------------------------------------------------------------------------
\* SpecRange: any sequence of insert / delete_value calls on one EventTree
\* whose keys are the points of a small grid, then one call of
\* get_nearby_range, which ends the run
\* ------------------------------------------------------------------------
RangePoints == (0..MaxPx) \X (0..MaxPy)

\* the set stored with the point p
RangeData(p) == {<<p[1] + (MaxPx + 1) * p[2], "left">>}

InitRange ==
    /\ NoRun
    /\ last = NoCall
    /\ tree = AVLTree
    /\ live = {}
    /\ inp_lst = <<>>
    /\ pc = "idle"

rangeFrame == <<tree, live, inp_lst, seg_lst, vt_sg_ix, seg_ixs, cnt,
                T_status, val, dat, err, evt_lst>>

RangeInsert(p) ==
    /\ pc = "idle"
    /\ Cardinality(DOMAIN events.nodes) < MaxStored
    /\ events' = Canon(insert(events, p, RangeData(p))[1])
    /\ UNCHANGED <<last, pc>>
    /\ UNCHANGED rangeFrame

\* as in TreeDelete, the guard keeps nodes_count in a finite range
RangeDeleted(res) ==
    /\ Cardinality(DOMAIN res[1].nodes) - res[1].nodes_count <= MaxDrift
    /\ events' = Canon(res[1])

RangeDelete(p) ==
    /\ pc = "idle"
    /\ RangeDeleted(delete_value(events, p))
    /\ UNCHANGED <<last, pc>>
    /\ UNCHANGED rangeFrame

\* lines 78-90: the nodes are read, range_find is the only thing written
RangeQuery(lo, hi) ==
    /\ pc = "idle"
    /\ pc' = "done"
    /\ last' = [op |-> "get_nearby_range", lo |-> lo, hi |-> hi,
                ret |-> get_nearby_range(events, lo, hi)]
    /\ UNCHANGED events
    /\ UNCHANGED rangeFrame

NextRange ==
    \/ \E p \in RangePoints : RangeInsert(p)
    \/ \E p \in RangePoints : RangeDelete(p)
    \/ \E lo \in RangePoints, hi \in RangePoints : RangeQuery(lo, hi)

SpecRange == InitRange /\ [][NextRange]_vars

\* ------------------------------------------------------------------------
\* SpecPair: one call of seg_int_pts on two segments, each with its lower
\* endpoint first, over the points of the wide grid and two points less
\* than TOL_ACC below and above the row y = 0
\* ------------------------------------------------------------------------
PairPoints ==
    WidePoints \cup {<<Step, -(TOL_ACC - 1)>>, <<2 * Step, TOL_ACC - 1>>}

PairSegs == LowFirst(SegmentsOver(PairPoints))

\* inp_lst holds the two arguments of the call
InitPair ==
    /\ inp_lst \in PairSegs \X PairSegs
    /\ pc = "call"
    /\ NoRun
    /\ tree = AVLTree
    /\ live = {}
    /\ last = NoCall

\* lines 180-289: the call, which reads its arguments and writes nothing
PairCall ==
    /\ pc = "call"
    /\ last' = [op |-> "seg_int_pts", seg_1 |-> inp_lst[1],
                seg_2 |-> inp_lst[2],
                ret |-> seg_int_pts(inp_lst[1], inp_lst[2])]
    /\ pc' = "done"
    /\ UNCHANGED <<tree, live, inp_lst, seg_lst, vt_sg_ix, seg_ixs, cnt,
                   events, T_status, val, dat, err, evt_lst>>

SpecPair == InitPair /\ [][PairCall]_vars

\* ------------------------------------------------------------------------
\* SpecNear: one call of run_sweep_line on two segments over the points of
\* SpecPair, where a segment can run within TOL_ACC of the other's line
\* ------------------------------------------------------------------------
InitNear == InitRun([1..2 -> PairSegs])

SpecNear == InitNear /\ [][NextSweep]_vars

\* ------------------------------------------------------------------------
\* SpecAny: one call of run_sweep_line on up to MaxSegs segments of the
\* grid, those whose two endpoints are the same point included
\* ------------------------------------------------------------------------
AnySegs == GridPoints \X GridPoints

InitAny == InitRun(ListsOver(AnySegs, MaxSegs))

SpecAny == InitAny /\ [][NextSweep]_vars

\* ------------------------------------------------------------------------
\* SpecSegs: any sequence of insert calls on one EventTree, with the points
\* of one row as keys and sets of one or two (index, role) pairs as data,
\* then one call of get_sgs, which ends the run
\* ------------------------------------------------------------------------
SegsPoints == {<<x, 0>> : x \in 0..MaxPx}

SegsData ==
    {d \in SUBSET ((0..1) \X {"left", "right", "internal"}) :
         Cardinality(d) \in 1..2}

segsFrame == <<tree, live, inp_lst, seg_lst, vt_sg_ix, seg_ixs, cnt,
               T_status, val, dat, evt_lst>>

SegsInsert(p, d) ==
    /\ pc = "idle"
    /\ Cardinality(DOMAIN events.nodes) < MaxStored
    /\ events' = Canon(insert(events, p, d)[1])
    /\ UNCHANGED <<last, pc, err>>
    /\ UNCHANGED segsFrame

\* the end of the call of get_sgs that got ret from proc_segs
SegsGot(ret) ==
    /\ last' = [op |-> "get_sgs", ret |-> ret]
    /\ IF ret.err # "" THEN Raise(ret.err)
       ELSE pc' = "done" /\ UNCHANGED err

\* lines 164-166 and 48-76: the nodes are read, nothing is written
SegsCall ==
    /\ pc = "idle"
    /\ SegsGot(proc_segs(events))
    /\ UNCHANGED events
    /\ UNCHANGED segsFrame

NextSegs ==
    \/ \E p \in SegsPoints, d \in SegsData : SegsInsert(p, d)
    \/ SegsCall
    \/ Resume

SpecSegs == InitRange /\ [][NextSegs]_vars

\* ------------------------------------------------------------------------
\* SpecTwice: one call of run_sweep_line on an input of SpecSweep, SpecSnap
\* or SpecFine and then, when it has returned, a second call on the
\* segment list it returned.  In this specification live keeps the event
\* list that the first call returned.
\* ------------------------------------------------------------------------
InitTwice ==
    InitRun(ListsOver(SegmentsOver(GridPoints), MaxSegs)
                \cup SnapInputs \cup FineInputs)

\* the caller passes the returned segment list to a second call
Again ==
    /\ pc = "done"
    /\ live = {}
    /\ live' = {evt_lst}
    /\ inp_lst' = seg_lst
    /\ pc' = "start"
    /\ seg_lst' = <<>>
    /\ vt_sg_ix' = <<>>
    /\ seg_ixs' = <<>>
    /\ cnt' = 0
    /\ events' = AVLTree
    /\ T_status' = AVLStatusTree
    /\ val' = NoneVal
    /\ dat' = {}
    /\ evt_lst' = <<>>
    /\ last' = NoCall
    /\ UNCHANGED <<tree, err>>

NextTwice ==
    \/ NextSweep
    \/ Again

SpecTwice == InitTwice /\ [][NextTwice]_vars

\* ------------------------------------------------------------------------
\* SpecCmp: two Segment objects built from two pairs of points, in either
\* order of the two points, and compared both ways.  The points are those
\* of SpecPair and two of a third row, which puts points of the grid
\* inside a vertical segment
\* ------------------------------------------------------------------------
CmpPoints == PairPoints \cup {<<0, 2 * Step>>, <<Step, 2 * Step>>}

InitCmp ==
    /\ inp_lst \in SegmentsOver(CmpPoints) \X SegmentsOver(CmpPoints)
    /\ pc = "call"
    /\ NoRun
    /\ tree = AVLTree
    /\ live = {}
    /\ last = NoCall

\* status_tree.py lines 34-46 and 69-101: Segment(...) for each pair, then
\* "A > B" and "B > A"; the calls read their arguments and write nothing
CmpCall ==
    /\ pc = "call"
    /\ last' = [op |-> "Segment.__gt__",
                seg_1 |-> Segment(inp_lst[1]),
                seg_2 |-> Segment(inp_lst[2]),
                ret |-> Segment__gt__(Segment(inp_lst[1]),
                                      Segment(inp_lst[2])),
                rev |-> Segment__gt__(Segment(inp_lst[2]),
                                      Segment(inp_lst[1]))]
    /\ pc' = "done"
    /\ UNCHANGED <<tree, live, inp_lst, seg_lst, vt_sg_ix, seg_ixs, cnt,
                   events, T_status, val, dat, err, evt_lst>>

SpecCmp == InitCmp /\ [][CmpCall]_vars

\* ------------------------------------------------------------------------
\* SpecStatus: a sequence of insert calls on one AVLStatusTree with
\* horizontal segments over the same x range.  The first is at height 0,
\* the second at height Top, and each further one lies halfway between the
\* one inserted last and its neighbour below or above, so that the gaps
\* between the node values are halved again and again; the third can also
\* be one above all others, which makes the number of entries odd or even
\* ------------------------------------------------------------------------
Top == 2 ^ MaxNest

\* the horizontal segment at height h: the segments are longer than
\* TOL_ACC and more than TOL_ACC apart
Level(h) == << <<0, 4 * h>>, <<4, 4 * h>> >>

\* the heights of the status entries
Heights == {T_status.nodes[n].data.sg_ix : n \in DOMAIN T_status.nodes}

\* the heights halfway between h and its neighbours among the heights S
Halfway(S, h) ==
    {(h + g) \div 2 :
        g \in {x \in S : \/ x < h /\ \A y \in S : y < h => y <= x
                         \/ x > h /\ \A y \in S : y > h => x <= y}} \ S

InitStatus ==
    /\ inp_lst = <<>>
    /\ pc = "idle"
    /\ NoRun
    /\ tree = AVLTree
    /\ live = {}
    /\ last = NoCall

\* status_tree.py lines 130-152: insert(NodeData(h, Segment(...)))
StatusInsert(h) ==
    LET res == status_insert(T_status, NodeData(h, Segment(Level(h))))
    IN  /\ pc = "idle"
        /\ T_status' = Canon(res[1])
        /\ last' = [op |-> "status_insert", key |-> h, ret |-> res[2]]
        /\ UNCHANGED <<tree, live, inp_lst, seg_lst, vt_sg_ix, seg_ixs, cnt,
                       events, val, dat, pc, err, evt_lst>>

NextStatus ==
    \E h \in 0..(Top + 1) :
        /\ IF Heights = {} THEN h = 0
           ELSE IF Heights = {0} THEN h = Top
           ELSE \/ h \in Halfway(Heights \ {Top + 1},
                                 IF last.key > Top THEN Top ELSE last.key)
                \/ h = Top + 1 /\ Heights = {0, Top}
        /\ StatusInsert(h)

SpecStatus == InitStatus /\ [][NextStatus]_vars

\* ========================================================================
\* Properties
\* ========================================================================

\* the number keys of an in-order sequence of [value, data] pairs
ValuesOf(seq) == [i \in 1..Len(seq) |-> seq[i][1][1]]

\* the ascending sequence of a finite set of numbers
RECURSIVE SortedSeq(_)
SortedSeq(S) ==
    IF S = {} THEN <<>>
    ELSE LET m == CHOOSE x \in S : \A y \in S : x <= y
         IN  <<m>> \o SortedSeq(S \ {m})

\* height of the subtree at n as the links give it (missing child: -1)
RECURSIVE TrueHeight(_, _)
TrueHeight(T, n) ==
    IF n = Nil THEN -1
    ELSE 1 + Max(TrueHeight(T, T.nodes[n].left_child),
                 TrueHeight(T, T.nodes[n].right_child))

\* C9: after any sequence of insert and delete_value calls, traverse()
\* yields exactly the keys inserted and not deleted since, each once and in
\* ascending order; so a key whose delete_value returned True is gone.
C9_RoundTrip ==
    /\ ValuesOf(traverse(tree)) = SortedSeq(live)
    /\ (last.op = "delete_value" /\ last.ret)
          => search(tree, <<last.key>>) = Nil

\* C10: after every insert or delete_value the subtree heights of every
\* node differ by at most 1 and every stored height is the true height.
C10_AVLBalance ==
    \A n \in DOMAIN tree.nodes :
        /\ tree.nodes[n].height = TrueHeight(tree, n)
        /\ TrueHeight(tree, tree.nodes[n].left_child)
             - TrueHeight(tree, tree.nodes[n].right_child) \in {-1, 0, 1}

\* C10 witness: a delete_value has just removed a key from a tree that
\* still has height 2, and an insert has produced a tree of height 2
C10_Witness ==
    /\ last.op = "delete_value" /\ last.ret
    /\ tree.root # Nil
    /\ tree.nodes[tree.root].height = 2
    /\ Cardinality(DOMAIN tree.nodes) = 4

\* ------------------------------------------------------------------------
\* Geometry of the input and of the result, in exact integer arithmetic
\* ------------------------------------------------------------------------
Min(a, b) == IF a < b THEN a ELSE b
Sign(n) == IF n > 0 THEN 1 ELSE IF n < 0 THEN -1 ELSE 0
Orient(a, b, c) == Sign(Cross(Sub(b, a), Sub(c, a)))

\* the point p lies on the closed segment seg
OnSegment(p, seg) ==
    /\ Orient(seg[1], seg[2], p) = 0
    /\ Min(seg[1][1], seg[2][1]) <= p[1] /\ p[1] <= Max(seg[1][1], seg[2][1])
    /\ Min(seg[1][2], seg[2][2]) <= p[2] /\ p[2] <= Max(seg[1][2], seg[2][2])

\* the segments s and t have a point in common
Meet(s, t) ==
    \/ OnSegment(s[1], t) \/ OnSegment(s[2], t)
    \/ OnSegment(t[1], s) \/ OnSegment(t[2], s)
    \/ /\ Orient(s[1], s[2], t[1]) * Orient(s[1], s[2], t[2]) < 0
       /\ Orient(t[1], t[2], s[1]) * Orient(t[1], t[2], s[2]) < 0

\* the segments s and t share a piece of positive length
Overlap(s, t) ==
    /\ Orient(s[1], s[2], t[1]) = 0
    /\ Orient(s[1], s[2], t[2]) = 0
    /\ LET c == IF s[1][1] # s[2][1] THEN 1 ELSE 2
       IN  Max(Min(s[1][c], s[2][c]), Min(t[1][c], t[2][c]))
             < Min(Max(s[1][c], s[2][c]), Max(t[1][c], t[2][c]))

\* a list of segments of positive length, no two of which overlap
ValidInput(lst) ==
    \A i, j \in 1..Len(lst) :
        /\ lst[i][1] # lst[i][2]
        /\ i < j => ~Overlap(lst[i], lst[j])

\* p and q differ by at most TOL_ACC in both coordinates
InBox(p, q) == Abs(p[1] - q[1]) <= TOL_ACC /\ Abs(p[2] - q[2]) <= TOL_ACC

\* the four sides of the box [x-TOL_ACC, y-TOL_ACC]..[x+TOL_ACC, y+TOL_ACC]
BoxSides(p) ==
    LET sw == <<p[1] - TOL_ACC, p[2] - TOL_ACC>>
        se == <<p[1] + TOL_ACC, p[2] - TOL_ACC>>
        ne == <<p[1] + TOL_ACC, p[2] + TOL_ACC>>
        nw == <<p[1] - TOL_ACC, p[2] + TOL_ACC>>
    IN  {<<sw, se>>, <<se, ne>>, <<ne, nw>>, <<nw, sw>>}

\* the point p is within TOL_ACC of the closed segment seg: some point of
\* the segment differs from p by at most TOL_ACC in both coordinates
NearSegment(p, seg) ==
    \/ InBox(p, seg[1])
    \/ InBox(p, seg[2])
    \/ \E side \in BoxSides(p) : Meet(seg, side)

\* no point of s is within TOL_ACC of a point of t
FarApart(s, t) ==
    /\ ~Meet(s, t)
    /\ ~NearSegment(s[1], t) /\ ~NearSegment(s[2], t)
    /\ ~NearSegment(t[1], s) /\ ~NearSegment(t[2], s)

\* the segment indices an event set names
IndicesOf(d) == {tup[1] : tup \in d}

\* the positions of a list of [point, set] events that carry the pair
Carriers(evs, ix, role) == {k \in 1..Len(evs) : <<ix, role>> \in evs[k][2]}

\* every index 0..n-1 is carried once as 'left' and once as 'right'
OnceEach(evs, n) ==
    \A ix \in 0..(n - 1) :
        /\ Cardinality(Carriers(evs, ix, "left")) = 1
        /\ Cardinality(Carriers(evs, ix, "right")) = 1

\* no two events of the list are within TOL_ACC in both coordinates
Separated(evs) ==
    \A i, j \in 1..Len(evs) : i < j => ~Near(evs[i][1], evs[j][1])

\* the points of the list are strictly increasing in (x, y) order
Increasing(evs) ==
    \A i \in 1..(Len(evs) - 1) : Less(evs[i][1], evs[i + 1][1])

\* left endpoint first, or bottom endpoint first for a vertical segment
IsNormalized(seg) ==
    /\ ~BadSeg(seg)
    /\ IF seg[1][1] # seg[2][1] THEN seg[1][1] < seg[2][1]
       ELSE seg[1][2] < seg[2][2]

\* the events of a result that report an intersection
IsIntersection(ev) ==
    Cardinality(ev[2]) >= 2 \/ \E tup \in ev[2] : tup[2] = "internal"

\* C1: completeness.  When run_sweep_line returns for a valid input, every
\* two input segments that meet are both named by one returned event that
\* lies at their meeting point (within TOL_ACC of both).
C1_Completeness ==
    (pc = "done" /\ ValidInput(inp_lst)) =>
        \A i, j \in 1..Len(inp_lst) :
            (i < j /\ Meet(inp_lst[i], inp_lst[j])) =>
                \E k \in 1..Len(evt_lst) :
                    /\ {i - 1, j - 1} \subseteq IndicesOf(evt_lst[k][2])
                    /\ NearSegment(evt_lst[k][1], inp_lst[i])
                    /\ NearSegment(evt_lst[k][1], inp_lst[j])

\* C2: soundness.  Every returned event with two or more participants or
\* an 'internal' role names only segments of the result that pass within
\* TOL_ACC of its point; when no two input segments come within TOL_ACC
\* of each other, every returned event is one endpoint of one segment.
C2_Soundness ==
    pc = "done" =>
        /\ \A k \in 1..Len(evt_lst) :
               IsIntersection(evt_lst[k]) =>
                   \A tup \in evt_lst[k][2] :
                       /\ tup[1] + 1 <= Len(seg_lst)
                       /\ ~BadSeg(seg_lst[tup[1] + 1])
                       /\ NearSegment(evt_lst[k][1], seg_lst[tup[1] + 1])
        /\ (\A i, j \in 1..Len(inp_lst) :
                i < j => FarApart(inp_lst[i], inp_lst[j]))
           => \A k \in 1..Len(evt_lst) : ~IsIntersection(evt_lst[k])

\* C2 witness: a call has returned an event at which two segments cross
\* in their interiors
C2_Witness ==
    /\ pc = "done"
    /\ \E k \in 1..Len(evt_lst) :
           \E a, b \in evt_lst[k][2] :
               a[1] # b[1] /\ a[2] = "internal" /\ b[2] = "internal"

\* C3: every segment index is carried exactly once as 'left' and exactly
\* once as 'right' by the returned event list, and by the event store once
\* the loading loop is over and after every later add_point / glom_to_seg.
C3_OneLeftOneRight ==
    ValidInput(inp_lst) =>
        /\ pc = "done" => OnceEach(evt_lst, Len(inp_lst))
        /\ \/ pc = "load" /\ cnt = 2 * Len(inp_lst)
           \/ pc \in {"glom", "loop"}
           => OnceEach(traverse(events), Len(inp_lst))

\* C4: the returned event list is strictly increasing in (x, y) order, and
\* no two events of the store are within TOL_ACC of each other in both
\* coordinates after any add_point or glom_to_seg.
C4_Separation ==
    /\ pc = "done" => Increasing(evt_lst) /\ Separated(evt_lst)
    /\ pc \in {"load", "glom", "loop"} => Separated(traverse(events))

\* entry i of the result is input segment i, endpoints moved by less than
\* TOL_ACC and possibly exchanged
SnappedFrom(seg, inp) ==
    \/ Near(seg[1], inp[1]) /\ Near(seg[2], inp[2])
    \/ Near(seg[1], inp[2]) /\ Near(seg[2], inp[1])

\* C5: the returned segment list has the length of the input, entry i is
\* input segment i snapped, and every entry is normalized, whatever the
\* endpoint order of the input; a single segment is a valid input in either
\* endpoint order, so the call returns for it.
C5_SnappedSegments ==
    /\ pc = "done" =>
           /\ Len(seg_lst) = Len(inp_lst)
           /\ \A i \in 1..Len(seg_lst) :
                  /\ IsNormalized(seg_lst[i])
                  /\ SnappedFrom(seg_lst[i], inp_lst[i])
    /\ (Len(inp_lst) = 1 /\ ValidInput(inp_lst)) => pc # "error"

\* C6: in a result, the first point of snapped segment i is the point of
\* the event that carries (i, 'left') and its second point is the point of
\* the event that carries (i, 'right').
C6_EndpointsAreEvents ==
    pc = "done" =>
        \A i \in 1..Len(seg_lst) :
            /\ \E k \in Carriers(evt_lst, i - 1, "left") :
                   evt_lst[k][1] = seg_lst[i][1]
            /\ \E k \in Carriers(evt_lst, i - 1, "right") :
                   evt_lst[k][1] = seg_lst[i][2]
            /\ \A k \in Carriers(evt_lst, i - 1, "left") :
                   evt_lst[k][1] = seg_lst[i][1]
            /\ \A k \in Carriers(evt_lst, i - 1, "right") :
                   evt_lst[k][1] = seg_lst[i][2]

\* C6 witness: a call on two segments has returned, and one event of the
\* result is an endpoint of both segments
C6_Witness ==
    /\ pc = "done"
    /\ Len(seg_lst) = 2
    /\ \E k \in 1..Len(evt_lst) :
           /\ IndicesOf(evt_lst[k][2]) = {0, 1}
           /\ \A tup \in evt_lst[k][2] : tup[2] # "internal"

\* the input is two non-vertical segments, given left endpoint first, whose
\* left endpoints are the same point and that do not overlap
CoincidentLeft ==
    /\ Len(inp_lst) = 2
    /\ ValidInput(inp_lst)
    /\ inp_lst[1][1] = inp_lst[2][1]
    /\ \A i \in 1..2 : inp_lst[i][1][1] < inp_lst[i][2][1]

\* C7: for two segments with coincident left endpoints the call returns,
\* one returned event at that point carries both (0, 'left') and
\* (1, 'left'), and no 'internal' role is reported.
C7_CoincidentLeft ==
    (CoincidentLeft /\ pc \in {"done", "error"}) =>
        /\ pc = "done"
        /\ \E k \in 1..Len(evt_lst) :
               /\ evt_lst[k][1] = inp_lst[1][1]
               /\ {<<0, "left">>, <<1, "left">>} \subseteq evt_lst[k][2]
        /\ \A k \in 1..Len(evt_lst) :
               \A tup \in evt_lst[k][2] : tup[2] # "internal"

\* the stored events that the box query of add_point(pt, ...) matches, in
\* ascending order
Matched(evs, pt) ==
    SelectSeq(evs, LAMBDA ev :
        /\ pt[1] - TOL_ACC <= ev[1][1] /\ ev[1][1] <= pt[1] + TOL_ACC
        /\ pt[2] - TOL_ACC <= ev[1][2] /\ ev[1][2] <= pt[2] + TOL_ACC)

SetOf(seq) == {seq[k] : k \in 1..Len(seq)}

\* C8: after an add_point whose box query matched stored events, the
\* matched events are gone, one event keyed by the point of the first
\* matched entry carries the union of their sets and the new pairs, and
\* the other events are as before.
C8_AddPointGlom ==
    (last.op = "add_point" /\ Matched(last.before, last.pt) # <<>>) =>
        LET hit == Matched(last.before, last.pt)
            glm_set == last.seg_dat \cup UNION {ev[2] : ev \in SetOf(hit)}
        IN  SetOf(traverse(events)) =
                (SetOf(last.before) \ SetOf(hit)) \cup {<<hit[1][1], glm_set>>}

\* the events of a list that lie within TOL_ACC of the point pt
EventsAt(evs, pt) == {k \in 1..Len(evs) : InBox(evs[k][1], pt)}

LeftEnd(seg) == IF Less(seg[1], seg[2]) THEN seg[1] ELSE seg[2]

\* the input is two segments, each given with its left endpoint first, and
\* the left endpoint of segment j lies on segment i away from its endpoints
\* by more than TOL_ACC
TJunction(i, j) ==
    /\ Len(inp_lst) = 2
    /\ {i, j} = {1, 2}
    /\ ValidInput(inp_lst)
    /\ \A k \in 1..2 : Less(inp_lst[k][1], inp_lst[k][2])
    /\ OnSegment(LeftEnd(inp_lst[j]), inp_lst[i])
    /\ ~InBox(LeftEnd(inp_lst[j]), inp_lst[i][1])
    /\ ~InBox(LeftEnd(inp_lst[j]), inp_lst[i][2])

VerticalAt(x) ==
    /\ pc = "done"
    /\ seg_lst[1][1][1] = x
    /\ seg_lst[1][2][1] = x

\* a returned event at x on the row of the horizontal segment names both
\* segments
CrossingAt(x) ==
    \E k \in 1..Len(evt_lst) :
        /\ evt_lst[k][1] = <<x, inp_lst[2][1][2]>>
        /\ IndicesOf(evt_lst[k][2]) = {0, 1}

\* C13 as stated: the near-vertical segment [(0, 0), (d, h)] is made
\* vertical at x = 0, the x of its first endpoint, and the intersection
\* event lies at x = 0.
C13_SnapToFirst ==
    (inp_lst \in SnapInputs /\ pc \in {"done", "error"}) =>
        VerticalAt(0) /\ CrossingAt(0)

\* C13, amended: the near-vertical segment [(0, 0), (d, h)] is made
\* vertical at x = d, the x of its second endpoint (line 364: seg[0][0] =
\* seg[1][0]); both of its snapped endpoints have x = d and the
\* intersection event lies at x = d on the row of the horizontal segment
\* when |d| < TOL_ACC.  (At |d| = TOL_ACC the start of the horizontal
\* segment is out of reach of glom_to_seg, |ptx - x| < TOL_ACC: at
\* d = -TOL_ACC the segments do not meet, at d = TOL_ACC they cross and
\* add_point merges the crossing into the event at x = 0.)
C13_SnapToSecond ==
    (inp_lst \in SnapInputs /\ pc \in {"done", "error"}) =>
        /\ VerticalAt(inp_lst[1][2][1])
        /\ Abs(inp_lst[1][2][1]) < TOL_ACC => CrossingAt(inp_lst[1][2][1])

\* C13 witness: a call has returned for a near-vertical segment that was
\* not vertical, with both snapped endpoints off the x of its first one
C13_Witness ==
    /\ inp_lst \in SnapInputs
    /\ inp_lst[1][2][1] # 0
    /\ VerticalAt(inp_lst[1][2][1])
    /\ CrossingAt(inp_lst[1][2][1])

\* ------------------------------------------------------------------------
\* C14: run_sweep_line never changes the caller's list: no step of the
\* call, whether it goes on, returns or raises, writes into inp_lst or
\* into a segment or a point of it
\* ------------------------------------------------------------------------
C14_InputKept == [][inp_lst' = inp_lst]_vars

\* the call returned after the working copy was snapped (segment 0 was not
\* vertical), reordered (segment 1 was given right endpoint first) and
\* glommed (the left endpoint of segment 1 moved onto segment 0)
C14_Witness ==
    /\ pc = "done"
    /\ inp_lst \in CopyInputs
    /\ inp_lst[1][1][1] # inp_lst[1][2][1]
    /\ seg_lst[1][1][1] = seg_lst[1][2][1]
    /\ Less(inp_lst[2][2], inp_lst[2][1])
    /\ Less(seg_lst[2][1], seg_lst[2][2])
    /\ seg_lst[2][1] # inp_lst[2][2]
    /\ seg_lst[2][1][1] = seg_lst[1][1][1]


\* ------------------------------------------------------------------------
\* C15: the main loop takes the events in lexicographic order
\* ------------------------------------------------------------------------
\* the points stored in an event tree
StoredPoints(T) == {T.nodes[n].value : n \in DOMAIN T.nodes}

\* the least member of a set of points, NoneVal for the empty set
LeastPoint(P) ==
    IF P = {} THEN NoneVal
    ELSE CHOOSE p \in P : \A q \in P : q = p \/ Less(p, q)

\* the successor of the point p in the store T
SuccessorIn(T, p) == LeastPoint({q \in StoredPoints(T) : Less(p, q)})

\* C15: the first current event is the minimum stored event, and whenever
\* the loop advances the next current event is the successor of the current
\* point among the events stored at that moment, those added in the pass
\* included; the loop ends when there is none.  So the points taken are
\* strictly increasing.
C15_LexOrder ==
    [][/\ (pc = "glom" /\ pc' = "loop") =>
            val' = LeastPoint(StoredPoints(events'))
       /\ (pc = "loop" /\ pc' = "loop" /\ val # NoneVal) =>
            /\ val' = SuccessorIn(events', val)
            /\ val' # NoneVal => Less(val, val')]_vars

\* the current event is a crossing of two interiors, which only a pass of
\* the loop can have stored, and it is not the last event
C15_Witness ==
    /\ pc = "loop"
    /\ val # NoneVal
    /\ \E i, j \in 0..(Len(inp_lst) - 1) :
          /\ i # j
          /\ {<<i, "internal">>, <<j, "internal">>} \subseteq dat
    /\ SuccessorIn(events, val) # NoneVal

\* ------------------------------------------------------------------------
\* C16: glom_to_seg pulls the nearby events onto the vertical segment
\* ------------------------------------------------------------------------
\* the event ev is one that glom_to_seg(seg) is to pull onto seg
Pulled(ev, seg) ==
    /\ Abs(ev[1][1] - seg[1][1]) < TOL_ACC
    /\ Min(seg[1][2], seg[2][2]) + TOL_ACC <= ev[1][2]
    /\ ev[1][2] <= Max(seg[1][2], seg[2][2]) - TOL_ACC

\* the event ev after glom_to_seg(seg)
Glommed(ev, seg) ==
    IF Pulled(ev, seg) THEN << <<seg[1][1], ev[1][2]>>, ev[2] >> ELSE ev

\* C16: after glom_to_seg on an exactly vertical segment at x = x0 every
\* stored event with |x - x0| < TOL_ACC and ymin + TOL_ACC <= y <=
\* ymax - TOL_ACC is stored at (x0, y) with the set it had, the other events
\* are as before, nothing else is stored, and every (index, role) pair that
\* was stored is still stored.
C16_GlomToVertical ==
    (last.op = "glom_to_seg" /\ last.seg[1][1] = last.seg[2][1]) =>
        LET before == SetOf(last.before)
            after == SetOf(traverse(events))
        IN  /\ after = {Glommed(ev, last.seg) : ev \in before}
            /\ UNION {ev[2] : ev \in before}
                   \subseteq UNION {ev[2] : ev \in after}

\* glom_to_seg moved an event onto the segment
C16_Witness ==
    /\ last.op = "glom_to_seg"
    /\ last.seg[1][1] = last.seg[2][1]
    /\ \E ev \in SetOf(last.before) :
          /\ Pulled(ev, last.seg)
          /\ ev[1][1] # last.seg[1][1]
          /\ Glommed(ev, last.seg) \in SetOf(traverse(events))

\* ------------------------------------------------------------------------
\* C17: get_nearby_range(lo, hi) returns the stored events of the box
\* ------------------------------------------------------------------------
\* the stored events (value, data) with lo.x <= x <= hi.x, lo.y <= y <= hi.y
BoxEvents(T, lo, hi) ==
    {<<T.nodes[n].value, T.nodes[n].data>> : n \in
        {m \in DOMAIN T.nodes :
            /\ lo[1] <= T.nodes[m].value[1] /\ T.nodes[m].value[1] <= hi[1]
            /\ lo[2] <= T.nodes[m].value[2] /\ T.nodes[m].value[2] <= hi[2]}}

\* C17: get_nearby_range(lo, hi) returns exactly the stored events that lie
\* in the closed box, each of them once, in ascending lexicographic order.
\* (The call writes no node: RangeQuery leaves the tree as it is.)
C17_RangeBox ==
    last.op = "get_nearby_range" =>
        /\ SetOf(last.ret) = BoxEvents(events, last.lo, last.hi)
        /\ Len(last.ret) = Cardinality(BoxEvents(events, last.lo, last.hi))
        /\ Increasing(last.ret)

\* a query that returned two events while it left out an event that lies
\* between lo and hi in the order of the keys and one in each subtree of
\* the root
C17_Witness ==
    /\ last.op = "get_nearby_range"
    /\ Len(last.ret) = 2
    /\ \E n \in DOMAIN events.nodes :
          /\ Less(last.lo, events.nodes[n].value)
          /\ Less(events.nodes[n].value, last.hi)
          /\ events.nodes[n].value[2] > last.hi[2]
    /\ events.nodes[events.root].left_child # Nil
    /\ events.nodes[events.root].right_child # Nil

\* ------------------------------------------------------------------------
\* C18: seg_int_pts returns (None, inf) exactly for the overlapping pairs
\* ------------------------------------------------------------------------
\* C18: seg_int_pts(seg_1, seg_2) returns (None, inf) if and only if the
\* two segments share a piece of positive length.
C18_OverlapExactly ==
    last.op = "seg_int_pts" =>
        (last.ret.kind = "inf" <=> Overlap(last.seg_1, last.seg_2))

\* a call on two overlapping segments without near endpoints, which
\* returned (None, inf)
C18_Witness ==
    /\ last.op = "seg_int_pts"
    /\ Overlap(last.seg_1, last.seg_2)
    /\ last.ret.kind = "inf"

\* ------------------------------------------------------------------------
\* C19: seg_int_pts(A, B) against seg_int_pts(B, A)
\* ------------------------------------------------------------------------
\* C19: seg_int_pts(A, B) and seg_int_pts(B, A) return the same kind of
\* result, and for a point the same point within TOL_ACC with the two
\* roles exchanged.
C19_Symmetry ==
    last.op = "seg_int_pts" =>
        LET r == last.ret
            q == seg_int_pts(last.seg_2, last.seg_1)
        IN  /\ r.kind = q.kind
            /\ r.kind = "point" =>
                  /\ InBox(r.pt, q.pt)
                  /\ q.tup = <<r.tup[2], r.tup[1]>>

\* a call on two different segments that found a T-junction, as did the
\* call with the arguments exchanged
C19_Witness ==
    /\ last.op = "seg_int_pts"
    /\ last.seg_1 # last.seg_2
    /\ last.ret.kind = "point"
    /\ last.ret.tup = <<"internal", "left">>
    /\ seg_int_pts(last.seg_2, last.seg_1) =
          IntPoint("left", "internal", last.ret.pt)

\* ------------------------------------------------------------------------
\* C20: the point seg_int_pts returns for two segments that cross
\* ------------------------------------------------------------------------
\* each segment has its endpoints strictly on either side of the line of
\* the other
ProperCross(A, B) ==
    /\ Orient(A[1], A[2], B[1]) * Orient(A[1], A[2], B[2]) < 0
    /\ Orient(B[1], B[2], A[1]) * Orient(B[1], B[2], A[2]) < 0

\* the signed distance of the point pt from the line of seg, times the
\* length of seg
Dist(seg, pt) == Cross(Sub(pt, seg[1]), Sub(seg[2], seg[1]))

\* A.p1 + (|s0| / (|s0| + |s1|)) * (A.p2 - A.p1), to the nearest unit
PointAlong(A, s0, s1) ==
    <<A[1][1] + Round(Abs(s0) * (A[2][1] - A[1][1]), Abs(s0) + Abs(s1)),
      A[1][2] + Round(Abs(s0) * (A[2][2] - A[1][2]), Abs(s0) + Abs(s1))>>

\* ProperCross, with every endpoint at least TOL_ACC from the line of the
\* other segment and no two endpoints within TOL_ACC of each other
ClearCross(A, B) ==
    /\ ProperCross(A, B)
    /\ \A i \in 1..2 : /\ ~WithinTol(Dist(A, B[i]), NormSq(Sub(A[2], A[1])))
                        /\ ~WithinTol(Dist(B, A[i]), NormSq(Sub(B[2], B[1])))
    /\ \A i, j \in 1..2 : ~Near(A[i], B[j])

OverlapReported == err = "ValueError" /\ val # NoneVal

\* seg_int_pts reports infinitely many common points for the two segments
\* of the list, asked in one order or the other
OverlapIn(lst) ==
    IntInf \in {seg_int_pts(lst[1], lst[2]), seg_int_pts(lst[2], lst[1])}

\* seg_int_pts reports infinitely many common points for the two segments
\* of the list whichever of them is its first argument, so that the test of
\* the pair reports the overlap in whichever order the main loop asks
OverlapBothWays(lst) ==
    {seg_int_pts(lst[1], lst[2]), seg_int_pts(lst[2], lst[1])} = {IntInf}

\* C21: a call in which the intersection test reports an overlap for the
\* tested pair ends with the fatal error and returns no result, and the
\* pass that reports it leaves the event store as it was.  Step by step:
\* a step into or within the reported overlap keeps the store, leaves the
\* result empty and leaves the call on its way to the error, the only step
\* from the stop in front of the raise is the raise, and no call returns
\* for two segments that the test reports to overlap in both orders of its
\* arguments.
C21_OverlapFatal ==
    [][/\ OverlapReported' =>
              /\ pc' \in {"breakpoint", "error"}
              /\ evt_lst' = <<>>
              /\ traverse(events') = traverse(events)
              /\ OverlapIn(seg_lst')
       /\ pc = "breakpoint" => pc' = "error" /\ err' = err
       /\ pc' \in {"input", "done"} => ~OverlapBothWays(seg_lst')]_vars

\* C21 witness: a reported overlap, followed to the end of the call
C21_Witness == OverlapReported /\ pc = "error"

\* ------------------------------------------------------------------------
\* C22  MalformedSegment is rejected at entry
\* ------------------------------------------------------------------------
\* some segment of the list has its two endpoints at the same point
Malformed(lst) == \E i \in 1..Len(lst) : lst[i][1] = lst[i][2]

\* C22: a call on a list with a segment of coincident endpoints fails
\* before any event is added to the event store and before the status
\* structure is touched.
\* Violated: no line of run_sweep_line looks at the endpoints before the
\* load, which stores both of them as one event.
C22_RejectAtEntry ==
    Malformed(inp_lst) =>
        /\ traverse(events) = <<>>
        /\ node_count(T_status) = 0
        /\ pc \in {"start", "error"}

\* what the code does instead: such a call never returns a result
C22_NeverReturns == Malformed(inp_lst) => pc \notin {"input", "done"}

\* such a call has ended, with an exception of the main loop
C22_Witness == Malformed(inp_lst) /\ pc = "error" /\ val # NoneVal


\* ------------------------------------------------------------------------
\* C23  processed_segments
\* ------------------------------------------------------------------------
\* the point of the one event of evs that has the pair (ix, role), and None
\* when no event has it
PointOf(evs, ix, role) ==
    IF Carriers(evs, ix, role) = {} THEN NoneVal
    ELSE evs[CHOOSE k \in Carriers(evs, ix, role) : TRUE][1]

\* the indices that are Left or Right at some event of evs
EndpointIndices(evs) ==
    {ix \in UNION {IndicesOf(evs[k][2]) : k \in 1..Len(evs)} :
        Carriers(evs, ix, "left") \cup Carriers(evs, ix, "right") # {}}

\* some index is Left at two events of evs, or Right at two
TwiceAnEnd(evs) ==
    \E ix \in EndpointIndices(evs), role \in {"left", "right"} :
        Cardinality(Carriers(evs, ix, role)) > 1

\* what processed_segments is to return for the events evs
SegmentsOf(evs) ==
    [ix \in EndpointIndices(evs) |->
        <<PointOf(evs, ix, "left"), PointOf(evs, ix, "right")>>]

\* C23: a call of processed_segments on a store in which no index is Left
\* twice or Right twice returns, for every index with an endpoint role, the
\* points of its Left and of its Right event, whatever is Internal there;
\* on any other store the call returns nothing: it is on its way to the
\* error ValueError, or has ended with it.
C23_Segments ==
    pc # "idle" =>
        IF TwiceAnEnd(traverse(events))
        THEN pc \in {"breakpoint", "error"} /\ err = "ValueError"
        ELSE pc = "done" /\ last.ret.err = ""
             /\ last.ret.dct = SegmentsOf(traverse(events))

\* C23 witness: a call on a store where index 0 is Left at two events, and
\* where index 1 is Internal at an event, has come to its end
C23_Witness ==
    /\ pc = "error"
    /\ last.op = "get_sgs"
    /\ Cardinality(Carriers(traverse(events), 0, "left")) = 2
    /\ Carriers(traverse(events), 1, "internal") # {}


\* ------------------------------------------------------------------------
\* C24  insert refuses a stored key
\* ------------------------------------------------------------------------
\* the keys that an in-order walk of the tree finds
StoredKeys(T) == SetOf(ValuesOf(traverse(T)))

\* C24: insert(k, v) returns True and adds the entry (k, v), counted as one
\* node more, exactly when no stored key equals k; when k is stored it
\* returns False and leaves keys, stored values, shape and node count as
\* they were.
C24_InsertOnce ==
    [][last'.op = "insert" =>
          IF last'.key \in StoredKeys(tree)
          THEN ~last'.ret /\ tree' = tree
          ELSE /\ last'.ret
               /\ tree'.nodes_count = tree.nodes_count + 1
               /\ Len(traverse(tree')) = Len(traverse(tree)) + 1
               /\ \E d \in Datas :
                      SetOf(traverse(tree')) =
                          SetOf(traverse(tree)) \cup {<< <<last'.key>>, d >>}
      ]_vars

\* C24 witness: the last call was an insert of a key that a tree of three
\* or more nodes holds with the data 0, and it returned False
C24_Witness ==
    /\ last.op = "insert"
    /\ ~last.ret
    /\ Len(traverse(tree)) >= 3
    /\ \E i \in 1..Len(traverse(tree)) :
           traverse(tree)[i] = << <<last.key>>, 0 >>


\* ------------------------------------------------------------------------
\* C25  lo_neighbor and hi_neighbor
\* ------------------------------------------------------------------------
\* the probes: every key, and one value below and one above all keys
Probes == 0..(MaxKey + 1)

\* the entry of largest key among the entries S, [None, None] for none
Highest(S) ==
    IF S = {} THEN <<NoneVal, NoneVal>>
    ELSE CHOOSE e \in S : \A f \in S : f[1][1] <= e[1][1]

\* the entry of smallest key among the entries S, [None, None] for none
Lowest(S) ==
    IF S = {} THEN <<NoneVal, NoneVal>>
    ELSE CHOOSE e \in S : \A f \in S : e[1][1] <= f[1][1]

\* C25: after any sequence of inserts and deletes and for any probe k,
\* stored or not, lo_neighbor(k) is the entry of the largest stored key
\* below k and hi_neighbor(k) the entry of the smallest stored key above k,
\* and each is [None, None] when there is no such key.
C25_Neighbours ==
    \A k \in Probes :
        /\ lo_neighbor(tree, <<k>>) =
               Highest({e \in SetOf(traverse(tree)) : e[1][1] < k})
        /\ hi_neighbor(tree, <<k>>) =
               Lowest({e \in SetOf(traverse(tree)) : e[1][1] > k})

\* C25 witness: after a delete the tree holds 1, 2 and 4 but not 3, and the
\* neighbours of the two probes 2 (stored) and 3 (not stored) are 1 and 4,
\* and 2 and 4
C25_Witness ==
    /\ last.op = "delete_value"
    /\ StoredKeys(tree) \cap (1..4) = {1, 2, 4}
    /\ lo_neighbor(tree, <<2>>)[1] = <<1>>
    /\ hi_neighbor(tree, <<2>>)[1] = <<4>>
    /\ lo_neighbor(tree, <<3>>)[1] = <<2>>
    /\ hi_neighbor(tree, <<3>>)[1] = <<4>>


\* ------------------------------------------------------------------------
\* C26  Idempotence
\* ------------------------------------------------------------------------
\* the intersections of an event list: the events with more than one
\* participant or an Internal role, each as point and participant set
IntersectionSet(evs) ==
    {evs[k] : k \in {j \in 1..Len(evs) : IsIntersection(evs[j])}}

\* C26: a second call, on the segment list that a first call returned,
\* returns an event list with the intersection set of the first.
C26_Idempotence ==
    (live # {} /\ pc \notin {"start", "load", "glom", "loop"}) =>
        /\ pc \in {"input", "done"}
        /\ \A first \in live :
               IntersectionSet(evt_lst) = IntersectionSet(first)

\* C26 witness: the second call has returned, for a first call that
\* changed a segment and found an intersection
C26_Witness ==
    /\ pc = "done"
    /\ \E first \in live : IntersectionSet(first) # {}
    /\ seg_lst # inp_lst


\* ------------------------------------------------------------------------
\* C27  No suspension, no blocking input
\* ------------------------------------------------------------------------
\* the call is waiting for the terminal: for a line, in input() of line
\* 541, or for a command, in the debugger of lines 68 and 320
Waiting == pc \in {"input", "breakpoint"}

\* C27: a call on a valid input gets to its return or to a fatal error
\* without ever waiting for anything from outside.
\* Violated: DEBUG_PLOT is True, and every call that gets to its return
\* first waits for a line from the terminal.
C27_NeverWaits == ValidInput(inp_lst) => ~Waiting

\* what the code does keep of it: the wait for a line comes when the main
\* loop is over and the results are read, and nothing else is waited for
C27_WaitsAtReturn ==
    (ValidInput(inp_lst) /\ Waiting) =>
        /\ pc = "input"
        /\ val = NoneVal
        /\ evt_lst = traverse(events)


\* ------------------------------------------------------------------------
\* C28  Status lifecycle
\* ------------------------------------------------------------------------
\* the events of the store that the main loop has processed: those before
\* val, the event it takes next, and all of them when there is none left
Processed ==
    {e \in SetOf(traverse(events)) : val = NoneVal \/ Less(e[1], val)}

\* the segments whose Left event has been processed and whose Right event
\* has not
Active ==
    {ix \in UNION {IndicesOf(e[2]) : e \in Processed} :
        /\ \E e \in Processed : <<ix, "left">> \in e[2]
        /\ ~\E e \in Processed : <<ix, "right">> \in e[2]}

\* the segments that the nodes of the status tree hold
InStatusTree == {T_status.nodes[n].data.sg_ix : n \in DOMAIN T_status.nodes}

\* C28: between two passes of the main loop on a valid input, and when the
\* loop has ended, the nodes of the status tree and the index -> key map
\* both hold exactly the segments whose Left event has been processed and
\* whose Right event has not.
\* Violated: a segment deleted while it is the root with one child stays in
\* the tree (the delete defect of C9).
C28_Lifecycle ==
    (ValidInput(inp_lst) /\ pc \in {"loop", "input", "done"}) =>
        /\ InStatusTree = Active
        /\ DOMAIN T_status.node_index = Active

\* the part about the end of the sweep alone: the status is empty then
C28_EmptyAtEnd ==
    (ValidInput(inp_lst) /\ pc \in {"input", "done"}) =>
        InStatusTree = {} /\ DOMAIN T_status.node_index = {}

\* what the code does keep of it: the index -> key map follows the events
C28_IndexFollows ==
    (ValidInput(inp_lst) /\ pc \in {"loop", "input", "done"}) =>
        DOMAIN T_status.node_index = Active


\* ------------------------------------------------------------------------
\* C29  No comparison with a segment that has ended
\* ------------------------------------------------------------------------
\* the segments whose nodes status_insertNode compares data with on its way
\* down from currentNode (lines 158 and 199)
RECURSIVE ComparedOnInsert(_, _, _)
ComparedOnInsert(T, currentNode, data) ==
    LET cur == T.nodes[currentNode]
        below == Segment__gt__(cur.data.seg, data.seg)
        above == ~below /\ Segment__gt__(data.seg, cur.data.seg)
    IN  {cur.data.sg_ix} \cup
        (IF below /\ cur.left_child # Nil
         THEN ComparedOnInsert(T, cur.left_child, data)
         ELSE IF above /\ cur.right_child # Nil
         THEN ComparedOnInsert(T, cur.right_child, data)
         ELSE {})

\* the segments compared with an inserted one while lines 485-487 insert
\* U_segs[i], U_segs[i + 1], ... into the status tree T
RECURSIVE ComparedInPass(_, _, _, _)
ComparedInPass(T, segs, U_segs, i) ==
    IF i > Len(U_segs) THEN {}
    ELSE LET data == NodeData(U_segs[i], Segment(segs[U_segs[i] + 1]))
         IN  (IF T.root = Nil THEN {}
              ELSE ComparedOnInsert(T, T.root, data))
             \cup ComparedInPass(status_insert(T, data)[1], segs, U_segs,
                                 i + 1)

\* the status tree when the insertions of the pass begin, after the
\* deletions of lines 466-468 and the swaps of lines 470-481
BeforeInsert(L_segs, C_segs) ==
    IF Len(C_segs) > 1
    THEN SwapAll(DeleteSegs(T_status, L_segs, 1), swp_lst(C_segs), 1).T
    ELSE DeleteSegs(T_status, L_segs, 1)

\* the Right event of segment ix is the event in hand or an earlier one
EndedBy(ix) ==
    \E e \in SetOf(traverse(events)) :
        /\ <<ix, "right">> \in e[2]
        /\ e[1] = val \/ Less(e[1], val)

\* C29: in the pass for the event in hand, on a valid input, no segment
\* that begins there is compared, on its way into the status tree, with a
\* segment whose Right event is this event or an earlier one.
\* Violated: a segment that stayed in the tree after its deletion (C28) is
\* compared with every later segment that passes its node.
C29_NoEndedCompared ==
    (ValidInput(inp_lst) /\ pc = "loop" /\ val # NoneVal) =>
        \A L_segs \in Orders(RoleSegs(dat, "right")),
           C_segs \in Orders(RoleSegs(dat, "internal")),
           U_segs \in Orders(RoleSegs(dat, "left")) :
            (\A i \in 1..Len(L_segs) : InIndex(T_status, L_segs[i])) =>
                \A ix \in ComparedInPass(BeforeInsert(L_segs, C_segs),
                                         seg_lst, U_segs, 1) :
                    ~EndedBy(ix)


\* ------------------------------------------------------------------------
\* C30  Status order
\* ------------------------------------------------------------------------
\* the event processed last
LastPoint == CHOOSE p \in {e[1] : e \in Processed} :
                 \A e \in Processed : e[1] = p \/ Less(e[1], p)

\* for a status segment sg that is not vertical: its height at the
\* abscissa x, times the positive number sg.vec[1]
HeightAt(sg, x) == sg.p1[2] * sg.vec[1] + sg.vec[2] * (x - sg.p1[1])

\* the status segment s lies below the status segment t immediately after
\* the event point p in the order of the sweep (by x, then by y), where both
\* are active.  Heights within TOL_ACC count as equal: two segments that
\* meet at or below p have passed their meeting point and the lower slope is
\* below, two that meet above p have not and the higher slope is below.  A
\* vertical segment goes up from p, above what passes through p and below
\* what passes higher
GeoBelow(s, t, p) ==
    IF s.vec[1] # 0 /\ t.vec[1] # 0
    THEN LET diff == HeightAt(s, p[1]) * t.vec[1]
                         - HeightAt(t, p[1]) * s.vec[1]
         IN  IF Abs(diff) <= TOL_ACC * s.vec[1] * t.vec[1]
             THEN IF HeightAt(s, p[1]) <= (p[2] + TOL_ACC) * s.vec[1]
                  THEN s.vec[2] * t.vec[1] < t.vec[2] * s.vec[1]
                  ELSE s.vec[2] * t.vec[1] > t.vec[2] * s.vec[1]
             ELSE diff < 0
    ELSE IF s.vec[1] = 0 /\ t.vec[1] # 0
    THEN HeightAt(t, p[1]) > (p[2] + TOL_ACC) * t.vec[1]
    ELSE IF s.vec[1] # 0 /\ t.vec[1] = 0
    THEN HeightAt(s, p[1]) <= (p[2] + TOL_ACC) * s.vec[1]
    ELSE FALSE

\* C30: between two passes of the main loop on a valid input, the entries
\* of the status tree, read in order, have strictly increasing keys and are
\* the active segments in their order from bottom to top immediately after
\* the event processed last.
\* Violated already with two segments: the tree keeps a segment that has
\* ended when it is the only entry (C28).
C30_StatusOrder ==
    (ValidInput(inp_lst) /\ pc = "loop" /\ Processed # {}) =>
        LET seq == traverse(T_status)
        IN  /\ \A i \in 1..(Len(seq) - 1) : seq[i][1][1] < seq[i + 1][1][1]
            /\ Len(seq) = Cardinality(Active)
            /\ {seq[i][2].sg_ix : i \in 1..Len(seq)} = Active
            /\ \A i, j \in 1..Len(seq) :
                   i < j => GeoBelow(seq[i][2].seg, seq[j][2].seg, LastPoint)

\* C30, for the entries that are active segments only: between two passes
\* of the main loop on a valid input, the keys of the status tree increase
\* in order and the entries that are active segments are in their order from
\* bottom to top immediately after the event processed last.
\* Holds with two segments.  Violated with three segments through one
\* point: the main loop exchanges the first and the last of C_segs, which
\* it collects in the iteration order of a set and not in status order.
C30_ActiveInOrder ==
    (ValidInput(inp_lst) /\ pc = "loop" /\ Processed # {}) =>
        LET seq == traverse(T_status)
        IN  /\ \A i \in 1..(Len(seq) - 1) : seq[i][1][1] < seq[i + 1][1][1]
            /\ \A i, j \in 1..Len(seq) :
                   (i < j /\ {seq[i][2].sg_ix, seq[j][2].sg_ix} \subseteq Active)
                       => GeoBelow(seq[i][2].seg, seq[j][2].seg, LastPoint)


\* ------------------------------------------------------------------------
\* C31  Reversal at interior crossings
\* ------------------------------------------------------------------------
\* the segment indices of the status entries, read in order
StatusIxs(T) ==
    [i \in 1..Len(traverse(T)) |-> traverse(T)[i][2].sg_ix]

\* the position in seq of the k-th of its members that are in C
PlaceOf(seq, C, k) ==
    CHOOSE i \in 1..Len(seq) :
        /\ seq[i] \in C
        /\ Cardinality({j \in 1..i : seq[j] \in C}) = k

\* after holds the members of C at the places they have in before, in the
\* reversed order, and every other member where it was
ReversedOn(before, after, C) ==
    LET m == Cardinality({j \in 1..Len(before) : before[j] \in C})
    IN  /\ Len(after) = Len(before)
        /\ \A i \in 1..Len(before) :
               IF before[i] \in C
               THEN after[i] =
                        before[PlaceOf(before, C,
                            m + 1 - Cardinality({j \in 1..i : before[j] \in C}))]
               ELSE after[i] = before[i]

\* the keys and the links of the nodes: the tree without its payloads
Shape(T) ==
    [root |-> T.root,
     nodes |-> [n \in DOMAIN T.nodes |-> [T.nodes[n] EXCEPT !.data = 0]]]

\* the current event has two or more "internal" members and its closing
\* segments can be deleted
CrossingNow ==
    /\ pc = "loop"
    /\ val # NoneVal
    /\ Cardinality(RoleSegs(dat, "internal")) >= 2
    /\ \A ix \in RoleSegs(dat, "right") : InIndex(T_status, ix)

\* C31: at an event with two or more "internal" members, in whichever order
\* the members are taken from the event's set, the swaps of lines 470-481
\* leave the members at the places of the status they had, in the reversed
\* order, and leave every other entry, every key and the shape of the tree
\* as they were.
\* Violated with three members: the first and the last of C_segs are
\* exchanged, and C_segs is in the order of the set, not of the status.
C31_Reversal ==
    CrossingNow =>
        \A L_segs \in Orders(RoleSegs(dat, "right")),
           C_segs \in Orders(RoleSegs(dat, "internal")) :
            LET T1 == DeleteSegs(T_status, L_segs, 1)
                sw == SwapAll(T1, swp_lst(C_segs), 1)
            IN  sw.err = "" =>
                    /\ ReversedOn(StatusIxs(T1), StatusIxs(sw.T),
                                  RoleSegs(dat, "internal"))
                    /\ Shape(sw.T) = Shape(T1)

\* what holds of it: the keys, the shape and the entries that are not
\* members stay, the members stay among their places, and two members are
\* reversed
C31_MembersPermuted ==
    CrossingNow =>
        \A L_segs \in Orders(RoleSegs(dat, "right")),
           C_segs \in Orders(RoleSegs(dat, "internal")) :
            LET T1 == DeleteSegs(T_status, L_segs, 1)
                sw == SwapAll(T1, swp_lst(C_segs), 1)
                C == RoleSegs(dat, "internal")
                before == StatusIxs(T1)
                after == StatusIxs(sw.T)
            IN  sw.err = "" =>
                    /\ Shape(sw.T) = Shape(T1)
                    /\ Len(after) = Len(before)
                    /\ \A i \in 1..Len(before) :
                           IF before[i] \in C THEN after[i] \in C
                           ELSE after[i] = before[i]
                    /\ {after[i] : i \in 1..Len(after)}
                           = {before[i] : i \in 1..Len(before)}
                    /\ Cardinality(C) = 2 => ReversedOn(before, after, C)


\* ------------------------------------------------------------------------
\* C32  Future-event filter
\* ------------------------------------------------------------------------
\* the ordered pairs of distinct indices of the working list
IndexPairs ==
    {pr \in (0..(Len(seg_lst) - 1)) \X (0..(Len(seg_lst) - 1)) :
        pr[1] # pr[2]}

\* the candidate that seg_int_pts returns for the pair
Candidate(pr) == seg_int_pts(seg_lst[pr[1] + 1], seg_lst[pr[2] + 1])

\* pt > [val[0] - TOL_ACC, val[1] - TOL_ACC] as Python compares two lists
BeyondWithSlack(pt) ==
    \/ pt[1] > val[1] - TOL_ACC
    \/ pt[1] = val[1] - TOL_ACC /\ pt[2] > val[2] - TOL_ACC

\* the main loop is at an event with a working list to test
AtEvent == pc = "loop" /\ val # NoneVal

\* C32 as stated: update_events called at the current event for a pair
\* whose candidate is at the current event point or before it in the order
\* by x, then by y, leaves the event store as it is.
\* Violated: a candidate at the current event point is added to it.
C32_FutureOnly ==
    AtEvent =>
        \A pr \in IndexPairs :
            (Candidate(pr).kind = "point" /\ ~Less(val, Candidate(pr).pt))
                => traverse(update_events(val, seg_lst, pr[1], pr[2],
                                          events).events)
                       = traverse(events)

\* C32, with the slack of line 322: update_events called at the current
\* event val for a pair with a candidate point pt adds pt with the two roles
\* to the event store when pt is after (val.x - TOL_ACC, val.y - TOL_ACC) in
\* the order by x, then by y, and leaves the store as it is otherwise; a
\* candidate at the current event point is added.
C32_SlackFilter ==
    AtEvent =>
        \A pr \in IndexPairs :
            LET res == Candidate(pr)
                out == update_events(val, seg_lst, pr[1], pr[2], events)
            IN  res.kind = "point" =>
                    /\ out.err = ""
                    /\ out.events =
                           IF BeyondWithSlack(res.pt)
                           THEN add_point(events, res.pt[1], res.pt[2],
                                    {<<pr[1], res.tup[1]>>,
                                     <<pr[2], res.tup[2]>>})
                           ELSE events

\* C32 witness: the event processed last is the left endpoint of a segment
\* on the interior of another, and carries the "internal" role that the
\* test made at that very point has added
C32_Witness ==
    /\ pc = "loop"
    /\ Processed # {}
    /\ \E pr \in IndexPairs :
           /\ Candidate(pr).kind = "point"
           /\ Candidate(pr).pt = LastPoint
           /\ Candidate(pr).tup = <<"internal", "left">>
           /\ seg_lst[pr[2] + 1][1] = LastPoint
           /\ \E e \in Processed :
                  /\ e[1] = LastPoint
                  /\ e[2] = {<<pr[1], "internal">>, <<pr[2], "left">>}


\* ------------------------------------------------------------------------
\* C33  check_segs normalizes every segment
\* ------------------------------------------------------------------------
\* the working list is as line 386 has left it: check_segs has returned and
\* no endpoint is loaded yet
AfterCheckSegs == pc = "load" /\ cnt = 0

\* C33: when check_segs has returned, every segment of the working list has
\* its left endpoint first, or its bottom endpoint first when the two
\* endpoints have the same x, whatever the order of the endpoints in the
\* input.
\* Violated: line 299 compares the y coordinates to tell the two cases
\* apart, so a horizontal segment given right endpoint first and a vertical
\* segment given top endpoint first stay as they are.
C33_CheckSegs ==
    AfterCheckSegs =>
        \A i \in 1..Len(seg_lst) :
            IF seg_lst[i][1][1] # seg_lst[i][2][1]
            THEN seg_lst[i][1][1] < seg_lst[i][2][1]
            ELSE seg_lst[i][1][2] <= seg_lst[i][2][2]

\* what holds of it: a segment whose endpoints differ in x and in y ends
\* with its left endpoint first, and only the order of the two endpoints
\* of a segment is changed
C33_SlantedNormalized ==
    AfterCheckSegs =>
        /\ Len(seg_lst) = Len(inp_lst)
        /\ \A i \in 1..Len(seg_lst) :
               /\ {seg_lst[i][1], seg_lst[i][2]}
                      = {make_vertical(inp_lst[i])[1],
                         make_vertical(inp_lst[i])[2]}
               /\ (seg_lst[i][1][1] # seg_lst[i][2][1]
                       /\ seg_lst[i][1][2] # seg_lst[i][2][2])
                      => seg_lst[i][1][1] < seg_lst[i][2][1]


\* ------------------------------------------------------------------------
\* C34  A Segment is normalized on construction
\* ------------------------------------------------------------------------
\* the two Segment objects have been built
Built == pc = "done" /\ last.op = "Segment.__gt__"

\* C34: a Segment object has p1 <= p2 in the order by x, then by y, in
\* whichever order its two points were passed.
\* Violated: line 38 compares the x values only, so two points on a vertical
\* line stay in the order they were passed in.
C34_LexNormalized ==
    Built => /\ ~Less(last.seg_1.p2, last.seg_1.p1)
             /\ ~Less(last.seg_2.p2, last.seg_2.p1)

\* what holds of it: p1 and p2 are the two points passed, p1.x <= p2.x, vec
\* goes from p1 to p2, and two points with different x are in the order by x
\* whichever order they were passed in
C34_XNormalized ==
    Built =>
        /\ {last.seg_1.p1, last.seg_1.p2} = {inp_lst[1][1], inp_lst[1][2]}
        /\ last.seg_1.p1[1] <= last.seg_1.p2[1]
        /\ last.seg_1.vec = Sub(last.seg_1.p2, last.seg_1.p1)
        /\ inp_lst[1][1][1] # inp_lst[1][2][1]
               => last.seg_1 = Segment(<<inp_lst[1][2], inp_lst[1][1]>>)


\* ------------------------------------------------------------------------
\* C35  Key separation
\* ------------------------------------------------------------------------
\* the gaps between the keys of the status entries that are adjacent in
\* order
KeyGaps(T) ==
    {ValuesOf(traverse(T))[i + 1] - ValuesOf(traverse(T))[i] :
        i \in 1..(Len(traverse(T)) - 1)}

\* C35: after every status insertion the keys of two entries adjacent in
\* order are at least VALUE_MIN apart.
\* Violated: _insertNode compares the gap it is about to halve with
\* VALUE_MIN, not the two gaps it leaves, so a gap of VALUE_MIN or more and
\* less than twice VALUE_MIN is halved and rebalance_values does not run.
C35_KeySeparation ==
    last.op = "status_insert" => \A g \in KeyGaps(T_status) : g >= VALUE_MIN

\* what holds of it: the keys increase in order, the gaps are at least half
\* of VALUE_MIN, and an insertion into a gap below VALUE_MIN makes all the
\* gaps VALUE_SPREAD
C35_HalfSeparation ==
    [][last'.op = "status_insert" =>
          /\ \A g \in KeyGaps(T_status') : 2 * g >= VALUE_MIN
          /\ (\E g \in KeyGaps(T_status) : g < VALUE_MIN)
                 => KeyGaps(T_status') = {VALUE_SPREAD}]_vars


\* ------------------------------------------------------------------------
\* C36  rebalance_values
\* ------------------------------------------------------------------------
\* the payloads of the status entries, read in order
Payloads(T) == [i \in 1..Len(traverse(T)) |-> traverse(T)[i][2]]

\* the keys of T, read in order, are k, k + VALUE_SPREAD, ... with
\* k = -VALUE_SPREAD * floor(n / 2)
SpreadFrom(T, n) ==
    \A i \in 1..Len(traverse(T)) :
        ValuesOf(traverse(T))[i] = VALUE_SPREAD * (i - 1 - (n \div 2))

\* node_index holds the key of every entry and nothing else
IndexExact(T) ==
    /\ DOMAIN T.node_index
           = {Payloads(T)[i].sg_ix : i \in 1..Len(Payloads(T))}
    /\ \A i \in 1..Len(traverse(T)) :
           T.node_index[traverse(T)[i][2].sg_ix] = traverse(T)[i][1]

\* the step is an insertion into a gap below VALUE_MIN, in which line 194
\* or 231 calls rebalance_values
RebalancingInsert ==
    /\ last'.op = "status_insert"
    /\ \E g \in KeyGaps(T_status) : g < VALUE_MIN

\* the entry that the step has inserted
IsNew(d) == d.sg_ix = last'.key

\* C36, within an insertion: when rebalance_values runs from within an
\* insertion that leaves n entries, the keys in order are k, k +
\* VALUE_SPREAD, ... with k = -VALUE_SPREAD * floor(n / 2), the entries
\* that were there are in the order they had, and node_index holds exactly
\* the new key of every entry.
\* Violated for an even n: rebalance_values takes n from node_count(), and
\* insert counts the new node only after _insertNode has returned.
C36_WithinInsert ==
    [][RebalancingInsert =>
          /\ SpreadFrom(T_status', Len(traverse(T_status')))
          /\ IndexExact(T_status')
          /\ SelectSeq(Payloads(T_status'), LAMBDA d : ~IsNew(d))
                 = Payloads(T_status)]_vars

\* what holds within an insertion: the same with the count of the entries
\* before the insertion, which is what node_count() returns
C36_CounterLags ==
    [][RebalancingInsert =>
          /\ SpreadFrom(T_status', Len(traverse(T_status)))
          /\ IndexExact(T_status')
          /\ SelectSeq(Payloads(T_status'), LAMBDA d : ~IsNew(d))
                 = Payloads(T_status)]_vars

\* what holds of a call between two insertions, where node_count() is the
\* number of entries: the keys are spread from -VALUE_SPREAD * floor(n / 2),
\* the payloads keep their order, the links of the nodes are unchanged, and
\* node_index holds exactly the new key of every entry
C36_BetweenInserts ==
    last.op = "status_insert" =>
        LET R == rebalance_values(T_status)
        IN  /\ SpreadFrom(R, Len(traverse(T_status)))
            /\ IndexExact(R)
            /\ Payloads(R) = Payloads(T_status)
            /\ R.root = T_status.root
            /\ \A n \in DOMAIN T_status.nodes :
                   [R.nodes[n] EXCEPT !.value = 0]
                       = [T_status.nodes[n] EXCEPT !.value = 0]


\* ------------------------------------------------------------------------
\* C37  New-intersection tests
\* ------------------------------------------------------------------------
\* the places in the sequence seq of the members of the set S
PlacesOf(seq, S) == {i \in 1..Len(seq) : seq[i] \in S}

\* the greatest and the least of a set of numbers that is not empty
Greatest(S) == CHOOSE x \in S : \A y \in S : y <= x
Least(S) == CHOOSE x \in S : \A y \in S : x <= y

\* the pairs to test at an event where segments only end: before is the
\* status, read in order, before the segments of L are deleted
ClosingPairs(before, L) ==
    IF /\ Greatest(PlacesOf(before, L)) < Len(before)
       /\ Least(PlacesOf(before, L)) > 1
    THEN {{before[Greatest(PlacesOf(before, L)) + 1],
           before[Least(PlacesOf(before, L)) - 1]}}
    ELSE {}

\* the pairs to test at any other event: after is the status, read in
\* order, after the deletions, the swaps and the insertions
OuterPairs(after, UC) ==
    (IF Greatest(PlacesOf(after, UC)) < Len(after)
     THEN {{after[Greatest(PlacesOf(after, UC))],
            after[Greatest(PlacesOf(after, UC)) + 1]}}
     ELSE {})
    \cup
    (IF Least(PlacesOf(after, UC)) > 1
     THEN {{after[Least(PlacesOf(after, UC))],
            after[Least(PlacesOf(after, UC)) - 1]}}
     ELSE {})

\* the pairs that the pass tests, each as the set of its two indices
TestedPairs(T, U_segs, C_segs, L_nb) ==
    LET pairs == NeighbourPairs(T, U_segs, C_segs, L_nb[1], L_nb[2])
    IN  {{pairs[i][1], pairs[i][2]} : i \in 1..Len(pairs)}

\* the pass for the current event, with its lists in the orders given,
\* gets to its tests: the status as lines 450-487 leave it, or an exception
StatusForTests(L_segs, C_segs, U_segs) ==
    IF \E i \in 1..Len(L_segs) : ~InIndex(T_status, L_segs[i])
    THEN [err |-> "KeyError", T |-> T_status]
    ELSE LET T1 == DeleteSegs(T_status, L_segs, 1)
             sw == IF Len(C_segs) > 1 THEN SwapAll(T1, swp_lst(C_segs), 1)
                   ELSE [err |-> "", T |-> T1]
         IN  IF sw.err # "" THEN sw
             ELSE InsertSegs(sw.T, seg_lst, U_segs, 1)

\* C37: at every event, in whichever order the members are taken from the
\* event's set, a pass that gets to its tests tests these pairs and no
\* others: at an event where segments only end, the entry above the highest
\* ending entry with the entry below the lowest ending entry, as they were
\* before the deletions, if both exist; at any other event, the highest
\* entry of U+C with the entry above it and the lowest entry of U+C with
\* the entry below it, as they are after the status is updated, each if
\* that neighbour exists.
C37_TestedPairs ==
    AtEvent =>
        \A L_segs \in Orders(RoleSegs(dat, "right")),
           C_segs \in Orders(RoleSegs(dat, "internal")),
           U_segs \in Orders(RoleSegs(dat, "left")) :
            LET st == StatusForTests(L_segs, C_segs, U_segs)
                UC == RoleSegs(dat, "left") \cup RoleSegs(dat, "internal")
                L_nb == SavedNeighbours(T_status, L_segs, U_segs, C_segs)
            IN  (st.err = "" /\ \A ix \in UC : InIndex(st.T, ix)) =>
                    TestedPairs(st.T, U_segs, C_segs, L_nb) =
                        IF UC = {}
                        THEN ClosingPairs(StatusIxs(T_status),
                                          RoleSegs(dat, "right"))
                        ELSE OuterPairs(StatusIxs(st.T), UC)

\* C37 witness: the pass just made has tested a pair of the status, found
\* a point that is not behind and stored it with an "internal" role
C37_Witness ==
    /\ pc = "loop"
    /\ val # NoneVal
    /\ Cardinality(DOMAIN T_status.nodes) >= 2
    /\ \E e \in SetOf(traverse(events)) :
           /\ ~Less(e[1], val)
           /\ \E tup \in e[2] : tup[2] = "internal"

\* C37 witness at an event where segments only end, with three segments:
\* the segment between two others ends and the two are tested
C37_ClosingWitness ==
    /\ AtEvent
    /\ RoleSegs(dat, "left") \cup RoleSegs(dat, "internal") = {}
    /\ \A ix \in RoleSegs(dat, "right") : InIndex(T_status, ix)
    /\ ClosingPairs(StatusIxs(T_status), RoleSegs(dat, "right")) # {}


\* ------------------------------------------------------------------------
\* C38  Comparator tie rule
\* ------------------------------------------------------------------------
\* the point p is the left endpoint of the segment sg, or inside sg: less
\* than TOL_ACC from its line, and between its two ends
OnSeg(p, sg) ==
    \/ p = sg.p1
    \/ /\ WithinTol(Cross(sg.vec, Sub(p, sg.p1)), NormSq(sg.vec))
       /\ Dot(sg.vec, Sub(p, sg.p1)) > 0
       /\ Dot(sg.vec, Sub(p, sg.p1)) < NormSq(sg.vec)

\* the two segments compared were passed left endpoint first, or bottom
\* endpoint first if vertical, and are not parallel
TieInputs ==
    /\ Built
    /\ Less(inp_lst[1][1], inp_lst[1][2])
    /\ Less(inp_lst[2][1], inp_lst[2][2])
    /\ Cross(last.seg_1.vec, last.seg_2.vec) # 0

\* the two segments start at the same point, or the left endpoint of the
\* one that starts later, in the order by x, then by y, is inside the other
TieCase ==
    /\ TieInputs
    /\ IF Less(last.seg_1.p1, last.seg_2.p1)
       THEN OnSeg(last.seg_2.p1, last.seg_1)
       ELSE OnSeg(last.seg_1.p1, last.seg_2)

\* a goes up more steeply than b: a is above b immediately after a point
\* they share, a vertical segment above every other
Steeper(a, b) ==
    IF a.vec[1] = 0 THEN TRUE
    ELSE IF b.vec[1] = 0 THEN FALSE
    ELSE a.vec[2] * b.vec[1] > b.vec[2] * a.vec[1]

\* C38: for two segments that are not parallel, with the left endpoint of
\* the one that starts later on the other, A > B is true exactly when A is
\* above B immediately after that point, and exactly one of A > B and B > A
\* is true.
\* Violated for a segment that starts inside a vertical segment: line 79
\* takes the later start from the x values alone, and both comparisons are
\* true.
C38_TieRule ==
    TieCase => /\ last.ret = Steeper(last.seg_1, last.seg_2)
               /\ last.rev = Steeper(last.seg_2, last.seg_1)
               /\ last.ret # last.rev

\* what holds of it: the same where the two left endpoints differ in x or
\* are the same point
C38_TieRuleByX ==
    (TieCase /\ (last.seg_1.p1[1] # last.seg_2.p1[1]
                     \/ last.seg_1.p1 = last.seg_2.p1))
        => /\ last.ret = Steeper(last.seg_1, last.seg_2)
           /\ last.rev = Steeper(last.seg_2, last.seg_1)
           /\ last.ret # last.rev

\* ------------------------------------------------------------------------
\* C39: every event of the store that run_sweep_line returns was the
\* current event of exactly one pass of the main loop
\* ------------------------------------------------------------------------
\* the stored points at or before p, and those between p and q (all those
\* after p when q is None)
UpTo(T, p) == {q \in StoredPoints(T) : ~Less(p, q)}

Between(T, p, q) ==
    {r \in StoredPoints(T) : Less(p, r) /\ (q = NoneVal \/ Less(r, q))}

\* C39: the main loop starts at a point with no stored point before it; a
\* pass of the main loop neither adds nor removes a stored point at or
\* before its current point, and the point of the next pass is after the
\* current one with no stored point between the two; the loop ends when no
\* stored point is after the current one, and the events returned are
\* those of the store as the last pass left it.  So the points that have
\* been current are at every pass the stored points before the current
\* one, each once, and at the return all the stored points.
C39_EveryEventOnce ==
    [][/\ (pc = "glom" /\ pc' = "loop" /\ val' # NoneVal) =>
            /\ val' \in StoredPoints(events')
            /\ UpTo(events', val') = {val'}
       /\ (pc = "loop" /\ pc' = "loop" /\ val # NoneVal) =>
            /\ UpTo(events', val) = UpTo(events, val)
            /\ Between(events', val, val') = {}
            /\ val' # NoneVal =>
                    Less(val, val') /\ val' \in StoredPoints(events')
       /\ (pc = "loop" /\ pc' \in {"input", "done"}) =>
            /\ val = NoneVal
            /\ evt_lst' = traverse(events)
            /\ events' = events]_vars

\* C39 witness: the call has returned a list with an event where two
\* segments cross, which the main loop stored, before the last event
C39_Witness ==
    /\ pc = "done"
    /\ err = ""
    /\ \E i \in 1..(Len(evt_lst) - 1) :
          \E a, b \in 0..(Len(inp_lst) - 1) :
              /\ a # b
              /\ {<<a, "internal">>, <<b, "internal">>} \subseteq evt_lst[i][2]
              /\ Less(evt_lst[i][1], evt_lst[i + 1][1])

====
